---------------------------- MODULE Spec2Model ----------------------------
(***************************************************************************)
(* The lshw object model of model/Lshw.py: a raw JSON document is loaded   *)
(* into Python objects, Children.__init__ and the node constructors build  *)
(* the typed tree, System.integrityCheck cross-checks each node.           *)
(*                                                                         *)
(* Python objects live in a heap (a sequence of objects, an address is an  *)
(* index), so that two names for one object are one address.  Strings are  *)
(* tuples of one-character strings, so that split(':') and the substring   *)
(* test of the `in' operator are computed and not assumed.                 *)
(***************************************************************************)
EXTENDS Naturals, Sequences, FiniteSets, TLC

VARIABLES
    heap,           \* the Python objects, by address
    propertyMap,    \* __main__: propertyMap = loads(jsonText)
    attributesArg,  \* __main__: the second loads(jsonText), passed to Computer
    computer,       \* __main__: computer = Computer(...)
    raised,         \* the exception that ended __main__, "" when none
    step,           \* the last operation performed, with its arguments
    writes,         \* how many writes the callers have made so far
    idA,            \* first id string handed to the class resolution
    idB,            \* second id string handed to the class resolution
    memberA,        \* the HardwareId member idA resolved to
    memberB,        \* the HardwareId member idB resolved to
    returned,       \* what the last call a consumer made returned
    output,         \* hardInfo: the text handed to jsonText_to_map_parser
    parsed,         \* hardInfo: what jsonText_to_map_parser returned
    arguments,      \* the wrappers a caller handed to Computer(...) directly
    logging,        \* model/Tools.py, Tool: self.logging
    lastRunTime,    \* Tool: self.lastRunTime
    lastRunOutput,  \* Tool: self.lastRunOutput
    runlog,         \* Tool: self.runlog, the runs by the time they started
    ran,            \* what the last call of Tool.run returned or raised
    runCount,       \* how many times Tool.run was called
    tasks,          \* service/MultiProcessing.py: the JoinableQueue tasks
    unfinished,     \* tasks: the items put and not yet marked task_done
    results,        \* the Queue results
    mainPc,         \* where the main process stands
    num_jobs,       \* the main process: the items or results still to handle
    toolPc,         \* where each worker process stands
    next_task,      \* each worker: the item it took last
    history         \* what the workers have done so far

\* the variables of model/Lshw.py
lshwVars == <<heap, propertyMap, attributesArg, computer, raised, step, writes,
              idA, idB, memberA, memberB, returned>>
\* the variables of hardInfo.py
parserVars == <<output, parsed>>
\* the variables of a Tool of model/Tools.py and of its caller
toolVars == <<logging, lastRunTime, lastRunOutput, runlog, ran, runCount>>
\* the variables of the processes of service/MultiProcessing.py
workerVars == <<tasks, unfinished, results, mainPc, num_jobs, toolPc,
                next_task, history>>
\* the variables the runs of __main__ and of its consumers leave alone
otherVars == <<parserVars, arguments, toolVars, workerVars>>

vars == <<lshwVars, parserVars, arguments, toolVars, workerVars>>

---------------------------------------------------------------------------
(* Bounds of the model. *)

\* longest generated 'children' array
MaxChildren == 2
\* most writes the callers make after materialization
MaxWrites == 1

---------------------------------------------------------------------------
(* Python values: None, str, int, or a reference to a heap object. *)

NoneV == [k |-> "none", s |-> <<>>, n |-> 0]
Str(cs) == [k |-> "str", s |-> cs, n |-> 0]
Num(i) == [k |-> "num", s |-> <<>>, n |-> i]
Ref(a) == [k |-> "ref", s |-> <<>>, n |-> a]

IsRef(v) == v.k = "ref"

\* A heap object: its class, its mapping content (dict and subclasses, in
\* insertion order), its sequence content (list and subclasses) and its
\* instance __dict__ (in insertion order).
Obj(cls, items, elems, d) ==
    [cls |-> cls, items |-> items, elems |-> elems, d |-> d]

DictClasses == {"dict", "Configuration", "Capabilities", "CPU_Capabilities"}
OrderedDictClasses == {"Configuration", "Capabilities", "CPU_Capabilities"}
ListClasses == {"list", "Children"}

IsDict(h, v) == IsRef(v) /\ h[v.n].cls \in DictClasses
IsList(h, v) == IsRef(v) /\ h[v.n].cls \in ListClasses
IsNode(h, v) == IsRef(v) /\ h[v.n].cls \notin (DictClasses \cup ListClasses)

New(h, o) == [h |-> Append(h, o), v |-> Ref(Len(h) + 1), err |-> ""]

---------------------------------------------------------------------------
(* Insertion-ordered mappings: a sequence of <<key, value>> pairs. *)

Keys(items) == {items[i][1] : i \in DOMAIN items}
HasKey(items, key) == \E i \in DOMAIN items : items[i][1] = key
Get(items, key) == items[CHOOSE i \in DOMAIN items : items[i][1] = key][2]
Put(items, key, v) ==
    IF HasKey(items, key)
    THEN [i \in DOMAIN items |-> IF items[i][1] = key THEN <<key, v>> ELSE items[i]]
    ELSE Append(items, <<key, v>>)
Del(items, key) == SelectSeq(items, LAMBDA p : p[1] # key)

---------------------------------------------------------------------------
(* Results of calls: the heap after the call, the value returned and the  *)
(* exception raised ("" when the call returned).                           *)

Ok(h, v) == [h |-> h, v |-> v, err |-> ""]
Raise(h, e) == [h |-> h, v |-> NoneV, err |-> e]

---------------------------------------------------------------------------
(* Strings are tuples of characters. *)

\* the characters of the literals the code names
s_id == <<"i", "d">>
s_colon == ":"

\* enum HardwareId: member name |-> value
HardwareId ==
    [ Core |-> <<"c", "o", "r", "e">>,
      Firmware |-> <<"f", "i", "r", "m", "w", "a", "r", "e">>,
      CPU |-> <<"c", "p", "u">>,
      Cache |-> <<"c", "a", "c", "h", "e">>,
      Memory |-> <<"m", "e", "m", "o", "r", "y">>,
      Bank |-> <<"b", "a", "n", "k">>,
      PCI |-> <<"p", "c", "i">>,
      Display |-> <<"d", "i", "s", "p", "l", "a", "y">>,
      Communication |-> <<"c", "o", "m", "m", "u", "n", "i", "c", "a", "t", "i", "o", "n">>,
      USB |-> <<"u", "s", "b">>,
      UsbHost |-> <<"u", "s", "b", "h", "o", "s", "t">>,
      MultiMedia |-> <<"m", "u", "l", "t", "i", "m", "e", "d", "i", "a">>,
      Generic |-> <<"g", "e", "n", "e", "r", "i", "c">>,
      FireWire |-> <<"f", "i", "r", "e", "w", "i", "r", "e">>,
      Network |-> <<"n", "e", "t", "w", "o", "r", "k">>,
      ISA |-> <<"i", "s", "a">>,
      Storage |-> <<"s", "t", "o", "r", "a", "g", "e">>,
      SCSI |-> <<"s", "c", "s", "i">>,
      Disk |-> <<"d", "i", "s", "k">>,
      Volume |-> <<"v", "o", "l", "u", "m", "e">>,
      LogicalVolume |-> <<"l", "o", "g", "i", "c", "a", "l", "v", "o", "l", "u", "m", "e">>,
      CD_ROM |-> <<"c", "d", "r", "o", "m">>,
      Medium |-> <<"m", "e", "d", "i", "u", "m">>,
      Battery |-> <<"b", "a", "t", "t", "e", "r", "y">> ]

\* System.idMap: tag |-> HardwareId member
idMap ==
    (<<"c", "o", "r", "e">> :> "Core") @@
    (<<"f", "i", "r", "m", "w", "a", "r", "e">> :> "Firmware") @@
    (<<"c", "p", "u">> :> "CPU") @@
    (<<"c", "a", "c", "h", "e">> :> "Cache") @@
    (<<"m", "e", "m", "o", "r", "y">> :> "Memory") @@
    (<<"b", "a", "n", "k">> :> "Bank") @@
    (<<"p", "c", "i">> :> "PCI") @@
    (<<"d", "i", "s", "p", "l", "a", "y">> :> "Display") @@
    (<<"c", "o", "m", "m", "u", "n", "i", "c", "a", "t", "i", "o", "n">> :> "Communication") @@
    (<<"u", "s", "b">> :> "USB") @@
    (<<"u", "s", "b", "h", "o", "s", "t">> :> "UsbHost") @@
    (<<"m", "u", "l", "t", "i", "m", "e", "d", "i", "a">> :> "MultiMedia") @@
    (<<"g", "e", "n", "e", "r", "i", "c">> :> "Generic") @@
    (<<"f", "i", "r", "e", "w", "i", "r", "e">> :> "FireWire") @@
    (<<"n", "e", "t", "w", "o", "r", "k">> :> "Network") @@
    (<<"i", "s", "a">> :> "ISA") @@
    (<<"s", "t", "o", "r", "a", "g", "e">> :> "Storage") @@
    (<<"s", "c", "s", "i">> :> "SCSI") @@
    (<<"d", "i", "s", "k">> :> "Disk") @@
    (<<"v", "o", "l", "u", "m", "e">> :> "Volume") @@
    (<<"l", "o", "g", "i", "c", "a", "l", "v", "o", "l", "u", "m", "e">> :> "LogicalVolume") @@
    (<<"c", "d", "r", "o", "m">> :> "CD_ROM") @@
    (<<"m", "e", "d", "i", "u", "m">> :> "Medium") @@
    (<<"b", "a", "t", "t", "e", "r", "y">> :> "Battery")

Tags == DOMAIN idMap

\* str.split(':'): the parts between the separators, in order
\* a split at the last ':' only
SplitLast(cs) ==
    LET colons == {i \in DOMAIN cs : cs[i] = s_colon}
        last == CHOOSE i \in colons : \A j \in colons : j <= i
    IN  IF colons = {} THEN <<cs>>
        ELSE <<SubSeq(cs, 1, last - 1), SubSeq(cs, last + 1, Len(cs))>>

RECURSIVE Split(_)
Split(cs) ==
    IF \A i \in DOMAIN cs : cs[i] # s_colon
    THEN <<cs>>
    ELSE LET i == CHOOSE j \in DOMAIN cs :
                      cs[j] = s_colon /\ \A m \in 1..(j - 1) : cs[m] # s_colon
         IN <<SubSeq(cs, 1, i - 1)>> \o Split(SubSeq(cs, i + 1, Len(cs)))

\* `sub in cs' for two strings: cs has sub as a contiguous part
IsSubstring(sub, cs) ==
    \E i \in 0..Len(cs) :
        i + Len(sub) <= Len(cs) /\ SubSeq(cs, i + 1, i + Len(sub)) = sub

---------------------------------------------------------------------------
(* A JSON document, as the text denotes it: a string, a number, an object *)
(* (its members in the order of the text) or an array.  The members of an *)
(* array carry the key "".                                                 *)

JS(cs) == [j |-> "str", s |-> cs, n |-> 0, body |-> <<>>]
JN(i) == [j |-> "num", s |-> <<>>, n |-> i, body |-> <<>>]
JObj(members) == [j |-> "obj", s |-> <<>>, n |-> 0, body |-> members]
JArr(elements) ==
    [j |-> "arr", s |-> <<>>, n |-> 0,
     body |-> [i \in DOMAIN elements |-> <<"", elements[i]>>]]

\* json.loads: a fresh dict per object, a fresh list per array
RECURSIVE loads(_, _)
RECURSIVE loadsBody(_, _)
loadsBody(h, body) ==
    IF body = <<>>
    THEN [h |-> h, items |-> <<>>, err |-> ""]
    ELSE LET rest(first) ==
                 IF first.err # ""
                 THEN [h |-> first.h, items |-> <<>>, err |-> first.err]
                 ELSE [loadsBody(first.h, Tail(body)) EXCEPT
                           !.items = <<<<body[1][1], first.v>>>> \o @]
         IN rest(loads(h, body[1][2]))

loads(h, doc) ==
    LET object(r) ==
            IF r.err # "" THEN Raise(r.h, r.err)
            ELSE New(r.h, Obj("dict", r.items, <<>>, <<>>))
        array(r) ==
            IF r.err # "" THEN Raise(r.h, r.err)
            ELSE New(r.h, Obj("list", <<>>,
                              [i \in DOMAIN r.items |-> r.items[i][2]], <<>>))
    IN CASE doc.j = "str" -> Ok(h, Str(doc.s))
         [] doc.j = "num" -> Ok(h, Num(doc.n))
         [] doc.j = "obj" -> object(loadsBody(h, doc.body))
         [] doc.j = "arr" -> array(loadsBody(h, doc.body))

\* copy.deepcopy of a value made of dicts, lists and scalars
RECURSIVE deepcopy(_, _)
RECURSIVE deepcopyItems(_, _)
RECURSIVE deepcopyElems(_, _)
deepcopyItems(h, items) ==
    IF items = <<>>
    THEN [h |-> h, items |-> <<>>, err |-> ""]
    ELSE LET rest(first) ==
                 IF first.err # ""
                 THEN [h |-> first.h, items |-> <<>>, err |-> first.err]
                 ELSE [deepcopyItems(first.h, Tail(items)) EXCEPT
                           !.items = <<<<items[1][1], first.v>>>> \o @]
         IN rest(deepcopy(h, items[1][2]))

deepcopyElems(h, elems) ==
    IF elems = <<>>
    THEN [h |-> h, elems |-> <<>>, err |-> ""]
    ELSE LET rest(first) ==
                 IF first.err # ""
                 THEN [h |-> first.h, elems |-> <<>>, err |-> first.err]
                 ELSE [deepcopyElems(first.h, Tail(elems)) EXCEPT
                           !.elems = <<first.v>> \o @]
         IN rest(deepcopy(h, elems[1]))

\* a copy that is the object itself
deepcopyShared(h, v) == Ok(h, v)

deepcopy(h, v) ==
    IF ~IsRef(v)
    THEN Ok(h, v)
    ELSE LET object(ci, ce) ==
                 IF ce.err # "" THEN Raise(ce.h, ce.err)
                 ELSE New(ce.h, Obj(h[v.n].cls, ci.items, ce.elems, h[v.n].d))
             elems(ci) ==
                 IF ci.err # "" THEN Raise(ci.h, ci.err)
                 ELSE object(ci, deepcopyElems(ci.h, h[v.n].elems))
         IN elems(deepcopyItems(h, h[v.n].items))

\* Python's ==: scalars by value, mappings by content (two OrderedDicts also
\* by order), lists element by element, every other object by identity
RECURSIVE PyEq(_, _, _)
PyEq(h, a, b) ==
    IF ~IsRef(a) \/ ~IsRef(b)
    THEN a = b
    ELSE LET oa == h[a.n]
             ob == h[b.n]
         IN CASE oa.cls \in DictClasses /\ ob.cls \in DictClasses ->
                    /\ Keys(oa.items) = Keys(ob.items)
                    /\ \A key \in Keys(oa.items) :
                           PyEq(h, Get(oa.items, key), Get(ob.items, key))
                    /\ (oa.cls \in OrderedDictClasses /\ ob.cls \in OrderedDictClasses)
                           => [i \in DOMAIN oa.items |-> oa.items[i][1]]
                              = [i \in DOMAIN ob.items |-> ob.items[i][1]]
              [] oa.cls \in ListClasses /\ ob.cls \in ListClasses ->
                    /\ Len(oa.elems) = Len(ob.elems)
                    /\ \A i \in DOMAIN oa.elems : PyEq(h, oa.elems[i], ob.elems[i])
              [] OTHER -> a.n = b.n

---------------------------------------------------------------------------
(* The fields each constructor sets to None before it copies the raw     *)
(* attributes, in the order of the assignments.                           *)

\* CPU_Capabilities.__init__: the pre-declared capability fields
CapabilityFields ==
    <<"x86_64", "fpu", "fpu_exception", "wp", "vme", "de", "pse", "tsc",
      "msr", "pae", "mce", "cx8", "apic", "sep", "mtrr", "pge", "mca",
      "cmov", "pat", "pse36", "clflush", "dts", "acpi", "mmx", "fxsr",
      "sse", "sse2", "ss", "ht", "tm", "pbe", "syscall", "nx", "rdtscp",
      "constant_tsc", "arch_perfmon", "pebs", "bts", "rep_good", "nopl",
      "xtopology", "nonstop_tsc", "cpuid", "aperfmperf", "pni", "dtes64",
      "monitor", "ds_cpl", "vmx", "est", "tm2", "ssse3", "cx16", "xtpr",
      "pdcm", "pcid", "sse4_1", "sse4_2", "popcnt", "lahf_lm", "pti",
      "ssbd", "ibrs", "ibpb", "stibp", "tpr_shadow", "vnmi",
      "flexpriority", "ept", "vpid", "dtherm", "ida", "arat", "flush_l1d",
      "cpufreq">>

\* <Node>.__init__: the declared fields of each node class
Declared ==
    [ Computer |->
          <<"id", "class_", "clained", "handle", "description", "product",
            "vendor", "serial", "width">>,
      Core |->
          <<"id", "class_", "claimed", "handle", "description", "product",
            "vendor", "physid", "version", "serial">>,
      Firmware |->
          <<"id", "class_", "claimed", "description", "vendor", "physid",
            "version", "date", "units", "size", "capacity">>,
      CPU |->
          <<"id", "class_", "claimed", "handle", "description", "product",
            "vendor", "physid", "businfo", "version", "slot", "units", "size",
            "capacity", "width", "clock">>,
      Cache |->
          <<"id", "class_", "claimed", "handle", "description", "physid", "slot",
            "units", "size", "capacity">>,
      Bank |->
          <<"id", "class_", "claimed", "handle", "description", "product",
            "vendor", "physid", "serial", "slot", "units", "size", "width",
            "clock">>,
      PCI |->
          <<"id", "class_", "claimed", "handle", "description", "product",
            "vendor", "physid", "businfo", "version", "width", "clock">>,
      Display |->
          <<"id", "class_", "claimed", "handle", "description", "product",
            "vendor", "physid", "businfo", "version", "width", "clock">>,
      Communication |->
          <<"id", "class_", "claimed", "handle", "description", "product",
            "vendor", "physid", "businfo", "version", "width", "clock">>,
      Network |->
          <<"id", "class_", "claimed", "handle", "description", "product",
            "vendor", "physid", "businfo", "logicalname", "version", "serial",
            "units", "capacity", "width", "clock">>,
      USB |->
          <<"id", "class_", "claimed", "handle", "description", "product",
            "vendor", "physid", "businfo", "version", "width", "clock">>,
      USBhost |->
          <<"id", "class_", "claimed", "handle", "product", "vendor", "physid",
            "businfo", "logicalname", "version">>,
      Multimedia |->
          <<"id", "class_", "claimed", "handle", "description", "product",
            "vendor", "physid", "businfo", "version", "width", "clock">>,
      Generic |->
          <<"id", "class_", "claimed", "handle", "description", "product",
            "vendor", "physid", "businfo", "version", "width", "clock">>,
      FireWire |->
          <<"id", "class_", "claimed", "handle", "description", "product",
            "vendor", "physid", "businfo", "version", "width", "clock">>,
      Bridge |->
          <<>>,
      ISA |->
          <<"id", "class_", "claimed", "handle", "description", "product",
            "vendor", "physid", "businfo", "version", "width", "clock">>,
      Memory |->
          <<"id", "class_", "claimed", "handle", "description", "physid", "slot",
            "units", "size">>,
      Storage |->
          <<"id", "class_", "claimed", "handle", "description", "product",
            "vendor", "physid", "businfo", "version", "width", "clock">>,
      SCSI |->
          <<"id", "class_", "claimed", "physid", "logicalname">>,
      Disk |->
          <<"id", "class_", "claimed", "handle", "description", "product",
            "vendor", "physid", "businfo", "logicalname", "dev", "version",
            "serial", "units", "size">>,
      Volume |->
          <<"id", "class_", "claimed", "description", "physid", "businfo",
            "logicalname", "dev", "version", "serial", "size", "capacity">>,
      LogicalVolume |->
          <<"id", "class_", "claimed", "description", "vendor", "physid",
            "logicalname", "dev", "version", "serial", "size", "capacity">>,
      CD_ROM |->
          <<"id", "class_", "claimed", "handle", "description", "product",
            "vendor", "physid", "businfo", "logicalname", "dev", "version">>,
      Medium |->
          <<"id", "class_", "claimed", "physid", "logicalname", "dev">>,
      Battery |->
          <<"id", "class_", "claimed", "handle", "product", "vendor", "physid",
            "slot", "units", "capacity">> ]

NodeClasses == DOMAIN Declared

---------------------------------------------------------------------------
(* The `in' operator and item lookup, on whatever value they are given. *)

\* the characters of a key, for the keys that are tested as strings
KeyChars(name) ==
    CASE name = "id" -> s_id
      [] name = "class" -> <<"c", "l", "a", "s", "s">>
      [] name = "width" -> <<"w", "i", "d", "t", "h">>
      [] name = "product" -> <<"p", "r", "o", "d", "u", "c", "t">>
      [] name = "configuration" ->
            <<"c", "o", "n", "f", "i", "g", "u", "r", "a", "t", "i", "o", "n">>
      [] name = "capabilities" ->
            <<"c", "a", "p", "a", "b", "i", "l", "i", "t", "i", "e", "s">>
      [] name = "children" -> <<"c", "h", "i", "l", "d", "r", "e", "n">>

\* name in v
PyIn(h, name, v) ==
    CASE IsDict(h, v) -> [err |-> "", b |-> HasKey(h[v.n].items, name)]
      [] IsList(h, v) ->
            [err |-> "",
             b |-> \E i \in DOMAIN h[v.n].elems :
                       h[v.n].elems[i] = Str(KeyChars(name))]
      [] v.k = "str" -> [err |-> "", b |-> IsSubstring(KeyChars(name), v.s)]
      [] OTHER -> [err |-> "TypeError", b |-> FALSE]

\* v[name]
PyGetItem(h, v, name) ==
    CASE IsDict(h, v) ->
            IF HasKey(h[v.n].items, name)
            THEN Ok(h, Get(h[v.n].items, name))
            ELSE Raise(h, "KeyError")
      [] OTHER -> Raise(h, "TypeError")

\* iter(v): the values a for loop or list.__init__ draws from v
PyIter(h, v) ==
    CASE IsList(h, v) -> [err |-> "", elems |-> h[v.n].elems]
      [] IsDict(h, v) ->
            [err |-> "",
             elems |-> [i \in DOMAIN h[v.n].items |->
                            Str(KeyChars(h[v.n].items[i][1]))]]
      [] v.k = "str" ->
            [err |-> "", elems |-> [i \in DOMAIN v.s |-> Str(<<v.s[i]>>)]]
      [] OTHER -> [err |-> "TypeError", elems |-> <<>>]

\* isinstance(value, list) or isinstance(value, tuple) or isinstance(value, dict)
IsContainer(h, v) == IsDict(h, v) \/ IsList(h, v)

---------------------------------------------------------------------------
(* Configuration, Capabilities, CPU_Capabilities. *)

\* OrderedDict.__init__(self, arg) in a new object of class cls
OrderedDictInit(h, cls, arg) ==
    CASE IsDict(h, arg) -> New(h, Obj(cls, h[arg.n].items, <<>>, <<>>))
      [] arg.k = "str" /\ arg.s = <<>> -> New(h, Obj(cls, <<>>, <<>>, <<>>))
      [] arg.k = "str" /\ arg.s # <<>> -> Raise(h, "ValueError")
      [] arg.k \in {"num", "none"} -> Raise(h, "TypeError")

Configuration(h, configuration) == OrderedDictInit(h, "Configuration", configuration)

Capabilities(h, capabilities) == OrderedDictInit(h, "Capabilities", capabilities)

\* every capability flag under its own name
CapabilityFieldNameUnchanged(name) == name

\* the named field a capability flag is stored under
CapabilityFieldName(name) ==
    IF name = "class" THEN "class_"
    ELSE IF name = "x86-64" THEN "x86_64"
    ELSE name

\* self.<name> = v for each of the (distinct) names, in order
PutAll(d, names, v) ==
    [i \in DOMAIN d |->
         IF \E j \in DOMAIN names : names[j] = d[i][1] THEN <<d[i][1], v>> ELSE d[i]]
    \o SelectSeq([j \in DOMAIN names |-> <<names[j], v>>],
                 LAMBDA p : ~HasKey(d, p[1]))

RECURSIVE CopyCapabilities(_, _, _)
CopyCapabilities(h, d, items) ==
    IF items = <<>>
    THEN d
    ELSE CopyCapabilities(h,
             IF IsContainer(h, items[1][2])
             THEN d
             ELSE Put(d, CapabilityFieldName(items[1][1]), items[1][2]),
             Tail(items))

CPU_Capabilities(h, capabilities) ==
    LET fields(base) ==
            IF base.err # ""
            THEN base
            ELSE Ok([base.h EXCEPT ![base.v.n].d =
                         CopyCapabilities(base.h,
                                          PutAll(<<>>, CapabilityFields, NoneV),
                                          base.h[base.v.n].items)],
                    base.v)
    IN fields(OrderedDictInit(h, "CPU_Capabilities", capabilities))

\* the loop of CPU_Capabilities.integrityCheck over self.items()
RECURSIVE capabilitiesLoop(_, _, _, _, _)
capabilitiesLoop(h, d, items, errorCount, errors) ==
    IF items = <<>>
    THEN [h |-> h, err |-> "", errorCount |-> errorCount, errors |-> errors]
    ELSE LET name == items[1][1]
             value == items[1][2]
         IN IF ~HasKey(d, name)
            THEN [h |-> h, err |-> "KeyError", errorCount |-> errorCount,
                  errors |-> errors]
            ELSE IF PyEq(h, value, Get(d, name))
            THEN capabilitiesLoop(h, d, Tail(items), errorCount, errors)
            ELSE capabilitiesLoop(
                     Append(h, Obj("dict",
                                   <<<<"value", value>>,
                                     <<"__dict__ value", Get(d, name)>>>>,
                                   <<>>, <<>>)),
                     d, Tail(items), errorCount + 1,
                     Put(errors, name, Ref(Len(h) + 1)))

\* CPU_Capabilities.integrityCheck(self): the heap, the exception,
\* errorCount and the entries of errors
capabilitiesIntegrityCheck(h, self) ==
    capabilitiesLoop(h, h[self].d, h[self].items, 0, <<>>)

---------------------------------------------------------------------------
(* System: the argument check and the integrity check. *)

\* an argument check that lets any children pass
checkArgumentsAnyChildren(h, configuration, capabilities, children) ==
    /\ configuration = NoneV
         \/ (IsRef(configuration) /\ h[configuration.n].cls = "Configuration")
    /\ capabilities = NoneV
         \/ (IsRef(capabilities)
               /\ h[capabilities.n].cls \in {"Capabilities", "CPU_Capabilities"})

\* System.checkArguments: TRUE when it returns, FALSE when it raises
checkArguments(h, configuration, capabilities, children) ==
    /\ configuration = NoneV
         \/ (IsRef(configuration) /\ h[configuration.n].cls = "Configuration")
    /\ capabilities = NoneV
         \/ (IsRef(capabilities)
               /\ h[capabilities.n].cls \in {"Capabilities", "CPU_Capabilities"})
    /\ children = NoneV
         \/ (IsRef(children) /\ h[children.n].cls = "Children")

\* every raw attribute under its own name
FieldNameUnchanged(name) == name

\* the named field a raw attribute is stored under
FieldName(name) == IF name = "class" THEN "class_" ELSE name

\* the attributes integrityCheck does not compare
SkippedNames == {"children", "logicalname"}

\* the loop of System.integrityCheck over attributes.items(); errors holds
\* the entries recorded so far
RECURSIVE integrityLoop(_, _, _, _, _)
integrityLoop(h, d, items, errorCount, errors) ==
    IF items = <<>>
    THEN [h |-> h, err |-> "", errorCount |-> errorCount, errors |-> errors]
    ELSE LET name == items[1][1]
             value == items[1][2]
         IN IF name \in SkippedNames
            THEN integrityLoop(h, d, Tail(items), errorCount, errors)
            ELSE IF ~HasKey(d, FieldName(name))
            THEN [h |-> h, err |-> "KeyError", errorCount |-> errorCount,
                  errors |-> errors]
            ELSE IF PyEq(h, value, Get(d, FieldName(name)))
            THEN integrityLoop(h, d, Tail(items), errorCount, errors)
            ELSE integrityLoop(
                     Append(h, Obj("dict",
                                   <<<<"value", value>>,
                                     <<"__dict__ value", Get(d, FieldName(name))>>>>,
                                   <<>>, <<>>)),
                     d, Tail(items), errorCount + 1,
                     Put(errors, FieldName(name), Ref(Len(h) + 1)))

\* System.integrityCheck(self): the heap, the exception, errorCount and the
\* errors dict
integrityCheck(h, self) ==
    LET d == h[self].d
        result(r) ==
            IF r.err # ""
            THEN [h |-> r.h, err |-> r.err, errorCount |-> 0, errors |-> NoneV]
            ELSE [h |-> Append(r.h, Obj("dict", r.errors, <<>>, <<>>)),
                  err |-> "", errorCount |-> r.errorCount,
                  errors |-> Ref(Len(r.h) + 1)]
    IN IF ~HasKey(d, "attributes")
       THEN [h |-> Append(h, Obj("dict", <<>>, <<>>, <<>>)), err |-> "",
             errorCount |-> 0, errors |-> Ref(Len(h) + 1)]
       ELSE IF ~IsDict(h, Get(d, "attributes"))
       THEN [h |-> h, err |-> "AttributeError", errorCount |-> 0, errors |-> NoneV]
       ELSE result(integrityLoop(h, d, h[Get(d, "attributes").n].items, 0, <<>>))

---------------------------------------------------------------------------
(* The node constructors. *)

\* a copy loop that stores every value under the attribute's own name
RECURSIVE copyAttributesUnrenamed(_, _, _)
copyAttributesUnrenamed(h, d, items) ==
    IF items = <<>>
    THEN d
    ELSE copyAttributesUnrenamed(h,
             IF IsContainer(h, items[1][2])
             THEN d
             ELSE Put(d, items[1][1], items[1][2]),
             Tail(items))

\* a copy loop that stores every value, containers included
RECURSIVE copyAttributesAll(_, _, _)
copyAttributesAll(h, d, items) ==
    IF items = <<>>
    THEN d
    ELSE copyAttributesAll(h,
             Put(d, FieldName(items[1][1]), items[1][2]),
             Tail(items))

\* the loop that copies the scalar raw attributes onto named fields
RECURSIVE copyAttributes(_, _, _)
copyAttributes(h, d, items) ==
    IF items = <<>>
    THEN d
    ELSE copyAttributes(h,
             IF IsContainer(h, items[1][2])
             THEN d
             ELSE Put(d, FieldName(items[1][1]), items[1][2]),
             Tail(items))

\* <Node>.__init__ from System.__init__ on, children being the Children (or
\* whatever the caller passed) that System.__init__ receives
nodeInit(h, cls, attributes, configuration, capabilities, children) ==
    LET self == Len(h) + 1
        \* System.__init__
        d0 == <<<<"configuration", configuration>>,
                <<"capabilities", capabilities>>,
                <<"children", children>>>>
        \* self.attributes = deepcopy(attributes); self.id = None; ...
        d1(dc) == PutAll(Put(d0, "attributes", dc.v), Declared[cls], NoneV)
        \* self.errorCount, self.errors = self.integrityCheck()
        check(d2, ic) ==
            IF ic.err # ""
            THEN Raise(ic.h, ic.err)
            ELSE Ok([ic.h EXCEPT ![self].d =
                         Put(Put(d2, "errorCount", Num(ic.errorCount)),
                             "errors", ic.errors)],
                    Ref(self))
        fields(dc, d2) ==
            check(d2, integrityCheck([dc.h EXCEPT ![self].d = d2], self))
        \* for name, value in self.attributes.items(): ...
        copy(dc) ==
            IF dc.err # "" THEN dc
            ELSE IF ~IsDict(dc.h, dc.v)
            THEN Raise([dc.h EXCEPT ![self].d = d1(dc)], "AttributeError")
            ELSE fields(dc, copyAttributes(dc.h, d1(dc), dc.h[dc.v.n].items))
    IN IF ~checkArguments(h, configuration, capabilities, children)
       THEN Raise(h, "Exception")
       ELSE copy(deepcopy(Append(h, Obj(cls, <<>>, <<>>, d0)), attributes))

\* Computer.__init__
Computer(h, attributes, configuration, capabilities, children) ==
    nodeInit(h, "Computer", attributes, configuration, capabilities, children)

\* Children.__init__ (if / elif chain): the node class built for a member
Dispatch ==
    [ Core |-> "Core", Firmware |-> "Firmware", CPU |-> "CPU", Cache |-> "Cache",
      Memory |-> "Memory", Bank |-> "Bank", PCI |-> "PCI", Display |-> "Display",
      Communication |-> "Communication", USB |-> "USB", UsbHost |-> "USBhost",
      MultiMedia |-> "Multimedia", Generic |-> "Generic", FireWire |-> "Firmware",
      Network |-> "Network", ISA |-> "ISA", Storage |-> "Storage", SCSI |-> "SCSI",
      Disk |-> "Disk", Volume |-> "Volume", LogicalVolume |-> "LogicalVolume",
      CD_ROM |-> "CD_ROM", Medium |-> "Medium", Battery |-> "Battery" ]

\* System.idMap[idParts[0]]: the HardwareId member, or the KeyError
\* a lookup that answers Generic for a tag the table lacks
idMemberOrGeneric(idParts) ==
    IF idParts[1] \in DOMAIN idMap THEN idMap[idParts[1]] ELSE "Generic"

idMember(idParts) ==
    IF idParts[1] \in DOMAIN idMap THEN idMap[idParts[1]] ELSE "KeyError"

\* a list that takes a new element at its head
ListPrepend(h, self, v) == [h EXCEPT ![self].elems = <<v>> \o @]

\* list.append(self, v)
ListAppend(h, self, v) == [h EXCEPT ![self].elems = Append(@, v)]

RECURSIVE Children(_, _)
RECURSIVE childrenLoop(_, _, _)
RECURSIVE childrenStep(_, _, _)

\* a constructor that sets the fields of the node and runs its check before
\* it builds the Children
childNodeInitTopDown(h, cls, attributes, configuration, capabilities, children) ==
    LET attach(node, ch) ==
            IF ch.err # ""
            THEN ch
            ELSE Ok([ch.h EXCEPT ![node.v.n].d = Put(@, "children", ch.v)], node.v)
        below(node) ==
            IF node.err # ""
            THEN node
            ELSE attach(node, Children(node.h, children))
    IN below(nodeInit(h, cls, attributes, configuration, capabilities, NoneV))

\* <Node>.__init__ of every class but Computer: the Children are built first
childNodeInit(h, cls, attributes, configuration, capabilities, children) ==
    LET init(ch) ==
            IF ch.err # ""
            THEN ch
            ELSE nodeInit(ch.h, cls, attributes, configuration, capabilities, ch.v)
    IN init(Children(h, children))

\* one pass of the loop of Children.__init__, for one element of the input
childrenStep(h, self, object) ==
    LET hasId == PyIn(h, "id", object)
        idv == PyGetItem(h, object, "id")
        member == idMember(Split(idv.v.s))
        items == h[object.n].items
        children == IF HasKey(items, "children")
                    THEN Get(items, "children")
                    ELSE NoneV
        \* self.append(<Node>(object, configuration, capabilities, children))
        append(node) ==
            IF node.err # ""
            THEN node
            ELSE Ok(ListAppend(node.h, self, node.v), NoneV)
        dispatch(conf, cap) ==
            IF cap.err # "" THEN cap
            ELSE IF member = "KeyError" THEN Raise(cap.h, "KeyError")
            ELSE append(childNodeInit(cap.h, Dispatch[member], object,
                                      conf.v, cap.v, children))
        \* if 'capabilities' in object: ...
        capabilities(conf) ==
            IF conf.err # "" THEN conf
            ELSE dispatch(conf,
                     IF ~HasKey(items, "capabilities")
                     THEN Ok(conf.h, NoneV)
                     ELSE IF member = "KeyError"
                     THEN Raise(conf.h, "KeyError")
                     ELSE IF member = "CPU"
                     THEN CPU_Capabilities(conf.h, Get(items, "capabilities"))
                     ELSE Capabilities(conf.h, Get(items, "capabilities")))
    IN IF hasId.err # "" THEN Raise(h, hasId.err)
       ELSE IF ~hasId.b THEN Ok(h, NoneV)
       ELSE IF idv.err # "" THEN Raise(h, idv.err)
       ELSE IF idv.v.k # "str" THEN Raise(h, "AttributeError")
       \* if 'configuration' in object: ...
       ELSE capabilities(IF HasKey(items, "configuration")
                         THEN Configuration(h, Get(items, "configuration"))
                         ELSE Ok(h, NoneV))

\* for object in self.children, from the i-th element on
childrenLoop(h, self, objects) ==
    IF objects = <<>>
    THEN Ok(h, Ref(self))
    ELSE LET rest(r) ==
                 IF r.err # "" THEN r ELSE childrenLoop(r.h, self, Tail(objects))
         IN rest(childrenStep(h, self, objects[1]))

\* Children.__init__
Children(h, children) ==
    LET self == Len(h) + 1
        h1 == Append(h, Obj("Children", <<>>, <<>>, <<<<"children", children>>>>))
        \* list.__init__(self, children); for object in self.children: ...
        fill(it) ==
            IF it.err # ""
            THEN Raise(h1, it.err)
            ELSE childrenLoop([h1 EXCEPT ![self].elems = it.elems], self, it.elems)
    IN IF children = NoneV
       THEN Ok(h1, Ref(self))
       ELSE fill(PyIter(h1, children))

---------------------------------------------------------------------------
(* __main__ of model/Lshw.py: load the document, build the Computer. *)

\* the loop that keeps the scalar entries of a raw mapping
RECURSIVE scalarItems(_, _)
scalarItems(h, items) ==
    IF items = <<>>
    THEN <<>>
    ELSE (IF IsContainer(h, items[1][2]) THEN <<>> ELSE <<items[1]>>)
             \o scalarItems(h, Tail(items))

\* configuration = {}; if name in propertyMap: for name, value in
\* propertyMap[name].items(): ...   (the same code for 'capabilities')
scalarEntries(h, pm, name) ==
    LET has == PyIn(h, name, pm)
        got == PyGetItem(h, pm, name)
    IN IF has.err # "" THEN Raise(h, has.err)
       ELSE IF has.b /\ got.err # "" THEN Raise(h, got.err)
       ELSE IF has.b /\ ~IsDict(h, got.v) THEN Raise(h, "AttributeError")
       ELSE New(h, Obj("dict",
                       IF has.b THEN scalarItems(h, h[got.v.n].items) ELSE <<>>,
                       <<>>, <<>>))

\* children = {}; if 'children' in propertyMap: children = propertyMap['children']
childrenEntry(h, pm) ==
    LET has == PyIn(h, "children", pm)
        got == PyGetItem(h, pm, "children")
        empty == New(h, Obj("dict", <<>>, <<>>, <<>>))
    IN IF has.err # "" THEN Raise(empty.h, has.err)
       ELSE IF ~has.b THEN empty
       ELSE IF got.err # "" THEN Raise(empty.h, got.err)
       ELSE Ok(empty.h, got.v)

\* the body of __main__ once jsonText is read: the heap, the two parses and
\* the Computer (or the exception)
main(h, doc) ==
    LET fail(pm, r) ==
            [h |-> r.h, pm |-> pm, arg |-> NoneV, v |-> NoneV, err |-> r.err]
        done(pm, arg, comp) ==
            [h |-> comp.h, pm |-> pm, arg |-> arg, v |-> comp.v, err |-> comp.err]
        \* computer = Computer(..., ..., ..., Children(children))
        construct(pm, arg, confW, capW, chnW) ==
            IF chnW.err # "" THEN fail(pm, chnW)
            ELSE done(pm, arg, Computer(chnW.h, arg, confW, capW, chnW.v))
        \* Capabilities(capabilities)
        wrapChildren(pm, chn, arg, confW, capW) ==
            IF capW.err # "" THEN fail(pm, capW)
            ELSE construct(pm, arg, confW, capW.v, Children(capW.h, chn))
        \* Configuration(configuration)
        wrapCapabilities(pm, cap, chn, arg, confW) ==
            IF confW.err # "" THEN fail(pm, confW)
            ELSE wrapChildren(pm, chn, arg, confW.v, Capabilities(confW.h, cap))
        \* loads(jsonText), the first argument of Computer
        wrapConfiguration(pm, conf, cap, chn, arg) ==
            IF arg.err # "" THEN fail(pm, arg)
            ELSE wrapCapabilities(pm, cap, chn, arg.v, Configuration(arg.h, conf))
        \* children = {} or propertyMap['children']
        parseArgument(pm, conf, cap, chn) ==
            IF chn.err # "" THEN fail(pm, chn)
            ELSE wrapConfiguration(pm, conf, cap, chn.v, loads(chn.h, doc))
        \* capabilities = {...}
        readChildren(pm, conf, cap) ==
            IF cap.err # "" THEN fail(pm, cap)
            ELSE parseArgument(pm, conf, cap.v, childrenEntry(cap.h, pm))
        \* configuration = {...}
        readCapabilities(pm, conf) ==
            IF conf.err # "" THEN fail(pm, conf)
            ELSE readChildren(pm, conf.v, scalarEntries(conf.h, pm, "capabilities"))
        \* propertyMap = loads(jsonText)
        readConfiguration(pm) ==
            IF pm.err # "" THEN fail(pm.v, pm)
            ELSE readCapabilities(pm.v, scalarEntries(pm.h, pm.v, "configuration"))
    IN readConfiguration(loads(h, doc))

---------------------------------------------------------------------------
(* The documents the model is run on. *)

\* id strings: a tag, then ':' and an index
Indexed(tag, index) == tag \o <<":", index>>

s_widget == <<"w", "i", "d", "g", "e", "t">>
s_notalist == <<"n", "o", "t", "-", "a", "-", "l", "i", "s", "t">>

\* a raw object: its id, then more members
Raw(idString, members) == JObj(<<<<"id", JS(idString)>>>> \o members)

cpu0 ==
    Raw(Indexed(HardwareId.CPU, "0"),
        << <<"class", JS(<<"p">>)>>, <<"product", JS(<<"T">>)>>,
           <<"capabilities", JObj(<< <<"sse2", JS(<<"t">>)>>,
                                     <<"x86-64", JS(<<"6">>)>> >>)>> >>)
cpu1 ==
    Raw(Indexed(HardwareId.CPU, "1"),
        << <<"class", JS(<<"p">>)>>, <<"width", JN(64)>>,
           <<"configuration", JObj(<< <<"cores", JS(<<"2">>)>> >>)>> >>)
cache0 == Raw(Indexed(HardwareId.Cache, "0"), << <<"class", JS(<<"m">>)>> >>)
cache1 ==
    Raw(Indexed(HardwareId.Cache, "1"),
        << <<"class", JS(<<"m">>)>>, <<"serial", JS(<<"s">>)>> >>)
bank0 ==
    Raw(Indexed(HardwareId.Bank, "0"),
        << <<"class", JS(<<"m">>)>>, <<"serial", JS(<<"s">>)>> >>)
noId == JObj(<< <<"class", JS(<<"g">>)>> >>)

\* the strings of the cpu:0 object 'Test CPU' of the lshw documentation
s_processor ==
    <<"p", "r", "o", "c", "e", "s", "s", "o", "r">>
s_TestCPU ==
    <<"T", "e", "s", "t", " ", "C", "P", "U">>
s_true ==
    <<"t", "r", "u", "e">>
s_x86_64 ==
    <<"6", "4", "b", "i", "t", "s", " ", "e", "x", "t", "e", "n",
      "s", "i", "o", "n", "s", " ", "(", "x", "8", "6", "-", "6",
      "4", ")">>

\* {id: cpu:0, class: processor, product: Test CPU, capabilities: {...}}
testCPU ==
    Raw(Indexed(HardwareId.CPU, "0"),
        << <<"class", JS(s_processor)>>, <<"product", JS(s_TestCPU)>>,
           <<"capabilities", JObj(<< <<"sse2", JS(s_true)>>,
                                     <<"x86-64", JS(s_x86_64)>> >>)>> >>)

\* the objects the generated 'children' arrays are made of
Leaves == {cpu0, cpu1, cache0, noId}

\* the root: the computer, with a 'children' array
Root(children) ==
    Raw(<<"h">>,
        << <<"class", JS(<<"s">>)>>, <<"product", JS(<<"P">>)>>,
           <<"configuration", JObj(<< <<"boot", JS(<<"n">>)>> >>)>>,
           <<"capabilities", JObj(<< <<"smbios", JS(<<"S">>)>> >>)>>,
           <<"children", JArr(children)>> >>)

SeqsUpTo(S, n) == UNION {[1..m -> S] : m \in 0..n}

\* every 'children' array of at most MaxChildren leaves
GeneratedDocuments == {Root(cs) : cs \in SeqsUpTo(Leaves, MaxChildren)}

\* nested arrays: core > cpu, cache; core > pci > usb
NestedDocuments ==
    { Root(<<cache0, bank0>>),
      Root(<<testCPU>>),
      Root(<<cache1>>),
      Root(<< Raw(HardwareId.Core,
                  << <<"class", JS(<<"b">>)>>,
                     <<"children", JArr(<<cpu0, cache0>>)>> >>) >>),
      Root(<< Raw(HardwareId.Core,
                  << <<"children",
                       JArr(<< Raw(Indexed(HardwareId.PCI, "0"),
                                   << <<"children",
                                        JArr(<< Raw(Indexed(HardwareId.USB, "0"),
                                                    <<>>) >>)>> >>),
                               bank0 >>)>> >>),
              cache0 >>),
      JObj(<< <<"id", JS(<<"h">>)>> >>) }

\* one child per tag
TagDocuments == {Root(<< Raw(tag, <<>>) >>) : tag \in Tags}

\* a child with the given members, after a well-formed sibling
WithChild(members) == Root(<<cache0, Raw(Indexed(HardwareId.CPU, "0"), members)>>)

\* documents with an anomaly in them
AnomalousDocuments ==
    { Root(<<cpu0, Raw(Indexed(s_widget, "3"), <<>>)>>),
      Root(<< Raw(Indexed(s_widget, "3"),
                  << <<"capabilities", JObj(<< <<"a", JS(<<"b">>)>> >>)>> >>) >>),
      Root(<< Raw(HardwareId.Core,
                  << <<"children", JArr(<< Raw(s_widget, <<>>) >>)>> >>) >>),
      WithChild(<< <<"children", JS(s_notalist)>> >>),
      WithChild(<< <<"children", JN(5)>> >>),
      WithChild(<< <<"children", JObj(<< <<"class", JS(<<"c">>)>> >>)>> >>),
      WithChild(<< <<"children", JObj(<< <<"width", JN(8)>> >>)>> >>),
      WithChild(<< <<"attributes", JS(<<"a">>)>> >>),
      WithChild(<< <<"errorCount", JN(5)>> >>),
      WithChild(<< <<"errors", JS(<<"e">>)>> >>),
      WithChild(<< <<"configuration", JS(<<>>)>> >>),
      WithChild(<< <<"configuration", JS(<<"c">>)>> >>),
      WithChild(<< <<"capabilities", JN(3)>> >>),
      WithChild(<< <<"capabilities", JS(<<>>)>> >>),
      WithChild(<< <<"capabilities",
                     JObj(<< <<"avx", JS(<<"t">>)>>, <<"sse2", JS(<<"t">>)>> >>)>> >>),
      WithChild(<< <<"logicalname", JArr(<<JS(<<"a">>), JS(<<"b">>)>>)>> >>),
      WithChild(<< <<"size", JArr(<<JN(1), JN(2)>>)>> >>),
      WithChild(<< <<"resources", JObj(<< <<"irq", JN(1)>> >>)>> >>),
      WithChild(<< <<"resources", JArr(<<JN(1)>>)>> >>),
      Root(<< JObj(<< <<"id", JN(5)>> >>) >>),
      Root(<< JS(s_id), JS(<<"x">>) >>),
      Raw(<<"h">>, << <<"children", JS(s_notalist)>> >>),
      Raw(<<"h">>, << <<"errorCount", JN(5)>>, <<"errors", JS(<<"e">>)>> >>),
      Raw(<<"h">>, << <<"attributes", JS(<<"a">>)>> >>),
      Raw(<<"h">>, << <<"resources", JObj(<< <<"irq", JN(1)>> >>)>> >>),
      JArr(<<>>),
      JN(5) }

Documents ==
    GeneratedDocuments \cup NestedDocuments \cup TagDocuments
        \cup AnomalousDocuments

---------------------------------------------------------------------------
(* The tree and what a consumer reads from it. *)

\* <Node>.getAttributes(self)
getAttributes(h, self) == Get(h[self].d, "attributes")

\* <Node>.getAttribute(self, name), for a name that is a str
getAttribute(h, self, name) ==
    IF HasKey(h[getAttributes(h, self).n].items, name)
    THEN Get(h[getAttributes(h, self).n].items, name)
    ELSE NoneV

\* the addresses of the objects reachable from the values vs
RECURSIVE Reach(_, _, _)
Reach(h, vs, seen) ==
    LET new == {v.n : v \in {w \in vs : IsRef(w)}} \ seen
        next == UNION {  {h[a].items[i][2] : i \in DOMAIN h[a].items}
                         \cup {h[a].elems[i] : i \in DOMAIN h[a].elems}
                         \cup {h[a].d[i][2] : i \in DOMAIN h[a].d} : a \in new}
    IN IF new = {} THEN seen ELSE Reach(h, next, seen \cup new)

\* the typed nodes of the tree under computer
Nodes == {a \in Reach(heap, {computer}, {}) : IsNode(heap, Ref(a))}

\* the raw objects that were handed to the constructors and that a caller
\* still holds: the argument of Computer and the 'children' of propertyMap
RawObjects ==
    Reach(heap,
          {attributesArg}
              \cup (IF IsDict(heap, propertyMap)
                       /\ HasKey(heap[propertyMap.n].items, "children")
                    THEN {Get(heap[propertyMap.n].items, "children")}
                    ELSE {}),
          {})

---------------------------------------------------------------------------
(* hardInfo.py: jsonText_to_map_parser, on the text a command printed. *)

\* most lines of a generated command output
MaxLines == 4

s_newline == "\n"
s_quote == "\""
s_WARNING == <<"W", "A", "R", "N", "I", "N", "G">>
s_brace == <<"{">>

\* the characters str.strip() and json.loads treat as white space
Whitespace == {" ", "\t", s_newline}

\* output.split('\n')
RECURSIVE splitLines(_)
splitLines(cs) ==
    IF \A i \in DOMAIN cs : cs[i] # s_newline
    THEN <<cs>>
    ELSE LET i == CHOOSE j \in DOMAIN cs :
                      /\ cs[j] = s_newline
                      /\ \A k \in 1..(j - 1) : cs[k] # s_newline
         IN  <<SubSeq(cs, 1, i - 1)>> \o splitLines(SubSeq(cs, i + 1, Len(cs)))

\* '\n'.join(lines)
RECURSIVE join(_)
join(lines) ==
    IF lines = <<>> THEN <<>>
    ELSE IF Len(lines) = 1 THEN lines[1]
    ELSE lines[1] \o <<s_newline>> \o join(Tail(lines))

\* line.strip()
strip(line) ==
    LET black == {i \in DOMAIN line : line[i] \notin Whitespace}
    IN  IF black = {} THEN <<>>
        ELSE SubSeq(line,
                    CHOOSE i \in black : \A j \in black : i <= j,
                    CHOOSE i \in black : \A j \in black : j <= i)

\* line.startswith(prefix)
startswith(line, prefix) ==
    /\ Len(line) >= Len(prefix)
    /\ SubSeq(line, 1, Len(prefix)) = prefix

\* the first index from i on that holds no white space, Len + 1 without one
RECURSIVE skipWhitespace(_, _)
skipWhitespace(cs, i) ==
    IF i <= Len(cs) /\ cs[i] \in Whitespace THEN skipWhitespace(cs, i + 1) ELSE i

Digits == {"0", "1", "2", "3", "4", "5", "6", "7", "8", "9"}

\* the value of a digit string
RECURSIVE numberOf(_)
numberOf(ds) ==
    IF ds = <<>> THEN 0
    ELSE 10 * numberOf(SubSeq(ds, 1, Len(ds) - 1))
             + (CHOOSE n \in 0..9 : ToString(n) = ds[Len(ds)])

\* the end of the run of digits that starts at i
RECURSIVE digitsEnd(_, _)
digitsEnd(cs, i) ==
    IF i <= Len(cs) /\ cs[i] \in Digits THEN digitsEnd(cs, i + 1) ELSE i

\* what a scan of the JSON text answers: the value and where the scan stopped
Scanned(v, next) == [err |-> "", v |-> v, next |-> next]
DecodeError == [err |-> "JSONDecodeError", v |-> NoneV, next |-> 0]

\* json.loads on a string that starts at i: "..." without escapes
scanString(cs, i) ==
    IF i > Len(cs) \/ cs[i] # s_quote THEN DecodeError
    ELSE LET closing == {j \in (i + 1)..Len(cs) : cs[j] = s_quote}
         IN  IF closing = {} THEN DecodeError
             ELSE LET j == CHOOSE k \in closing : \A l \in closing : k <= l
                  IN  IF \E k \in (i + 1)..(j - 1) : cs[k] \in {s_newline, "\t"}
                      THEN DecodeError
                      ELSE Scanned(Str(SubSeq(cs, i + 1, j - 1)), j + 1)

\* a scalar value that starts at i: a string or a number without sign,
\* fraction or leading zero
scanScalar(cs, i) ==
    IF i <= Len(cs) /\ cs[i] = s_quote THEN scanString(cs, i)
    ELSE LET j == digitsEnd(cs, i)
         IN  IF j = i \/ (cs[i] = "0" /\ j > i + 1) THEN DecodeError
             ELSE Scanned(Num(numberOf(SubSeq(cs, i, j - 1))), j)

\* the members of an object from i on, the first one or one after a comma,
\* added to the mapping d; a later member replaces an earlier one of its name
RECURSIVE scanMembers(_, _, _)
scanMembers(cs, i, d) ==
    LET key == scanString(cs, skipWhitespace(cs, i))
        colon == skipWhitespace(cs, key.next)
        value == scanScalar(cs, skipWhitespace(cs, colon + 1))
        after == skipWhitespace(cs, value.next)
    IN  IF key.err # "" THEN DecodeError
        ELSE IF colon > Len(cs) \/ cs[colon] # ":" THEN DecodeError
        ELSE IF value.err # "" THEN DecodeError
        ELSE IF after > Len(cs) THEN DecodeError
        ELSE IF cs[after] = "}" THEN Scanned(Put(d, key.v.s, value.v), after + 1)
        ELSE IF cs[after] = "," THEN scanMembers(cs, after + 1, Put(d, key.v.s, value.v))
        ELSE DecodeError

\* json.loads(text) for a text whose first character other than white space
\* is '{': the mapping of an object of scalar members, or the decode error
jsonLoads(cs) ==
    LET open == skipWhitespace(cs, 1)
        first == skipWhitespace(cs, open + 1)
        object == IF first <= Len(cs) /\ cs[first] = "}"
                  THEN Scanned(<<>>, first + 1)
                  ELSE scanMembers(cs, open + 1, <<>>)
    IN  IF open > Len(cs) \/ cs[open] # "{" THEN DecodeError
        ELSE IF object.err # "" THEN DecodeError
        ELSE IF skipWhitespace(cs, object.next) <= Len(cs) THEN DecodeError
        ELSE object

\* the index of the first line from i on that starts with the prefix once
\* stripped, Len + 1 without one
RECURSIVE firstLine(_, _, _)
firstLine(lines, i, prefix) ==
    IF i <= Len(lines) /\ ~startswith(strip(lines[i]), prefix)
    THEN firstLine(lines, i + 1, prefix)
    ELSE i

\* jsonText_to_map_parser(output): the mapping, or the exception of json.loads
jsonText_to_map_parser(text) ==
    LET lines == splitLines(text)
        startIdx == firstLine(lines, 1, s_brace)
        endIdx == firstLine(lines, startIdx + 1, s_WARNING)
        loaded == jsonLoads(join(SubSeq(lines, startIdx, endIdx - 1)))
    IN  IF startIdx <= Len(lines) /\ endIdx <= Len(lines)
        THEN [done |-> TRUE, err |-> loaded.err,
              v |-> IF loaded.err = "" THEN loaded.v ELSE <<>>]
        ELSE [done |-> TRUE, err |-> "", v |-> <<>>]

---------------------------------------------------------------------------
(* The specification of a run of the program and of its consumers. *)

\* no text parsed yet
NoParsed == [done |-> FALSE, err |-> "", v |-> <<>>]

\* hardInfo.py is not running
ParserIdle == output = <<>> /\ parsed = NoParsed

\* no Tool of model/Tools.py has been constructed
ToolIdle ==
    /\ logging = FALSE
    /\ lastRunTime = 0
    /\ lastRunOutput = <<>>
    /\ runlog = <<>>
    /\ ran = <<>>
    /\ runCount = 0

\* no process of service/MultiProcessing.py has been created
WorkersIdle ==
    /\ tasks = <<>>
    /\ unfinished = 0
    /\ results = <<>>
    /\ mainPc = ""
    /\ num_jobs = 0
    /\ toolPc = <<>>
    /\ next_task = <<>>
    /\ history = <<>>

\* nothing but __main__ and its consumers is running
OthersIdle == ParserIdle /\ arguments = <<>> /\ ToolIdle /\ WorkersIdle

NoStep == [name |-> "", target |-> 0, key |-> ""]

\* the argument of getAttribute: a str, or a value of another type (None,
\* a number) written as its repr
StrName(name) == [isstr |-> TRUE, name |-> name]
OtherName(name) == [isstr |-> FALSE, name |-> name]

\* no call made yet; a call leaves the node it was made on, its argument,
\* the value or the exception, and for integrityCheck the pair
\* (errorCount, errors), the entries of errors spelled out as
\* <<name, value, __dict__ value>>
NoResult ==
    [op |-> "", self |-> 0, arg |-> OtherName("None"), v |-> NoneV,
     err |-> "", errorCount |-> 0,
     errors |-> <<>>]

Init ==
    /\ heap = <<>>
    /\ propertyMap = NoneV
    /\ attributesArg = NoneV
    /\ computer = NoneV
    /\ raised = ""
    /\ step = NoStep
    /\ writes = 0
    /\ idA = <<>>
    /\ idB = <<>>
    /\ memberA = ""
    /\ memberB = ""
    /\ returned = NoResult
    /\ OthersIdle

\* __main__ runs on one document
Main ==
    /\ step = NoStep
    /\ \E doc \in Documents : \E r \in {main(heap, doc)} :
             /\ heap' = r.h
             /\ propertyMap' = r.pm
             /\ attributesArg' = r.arg
             /\ computer' = r.v
             /\ raised' = r.err
    /\ step' = [NoStep EXCEPT !.name = "Main"]
    /\ UNCHANGED <<writes, idA, idB, memberA, memberB, returned>>
    /\ UNCHANGED otherVars

\* what the callers write: one value under one of two keys
WrittenValue == Str(<<"Z">>)
WrittenKeys == {"product", "note"}

\* a caller changes a raw object after the constructors have returned: it
\* sets an entry, deletes an entry, or appends to an array
MutateRaw ==
    /\ step # NoStep
    /\ raised = ""
    /\ writes < MaxWrites
    /\ \E a \in RawObjects :
          \/ /\ heap[a].cls = "dict"
             /\ \E key \in WrittenKeys :
                   /\ heap' = [heap EXCEPT ![a].items = Put(@, key, WrittenValue)]
                   /\ step' = [name |-> "MutateRaw", target |-> a, key |-> key]
          \/ /\ heap[a].cls = "dict"
             /\ HasKey(heap[a].items, "id")
             /\ heap' = [heap EXCEPT ![a].items = Del(@, "id")]
             /\ step' = [name |-> "MutateRaw", target |-> a, key |-> "id"]
          \/ /\ heap[a].cls = "list"
             /\ heap' = [heap EXCEPT ![a].elems = Append(@, WrittenValue)]
             /\ step' = [name |-> "MutateRaw", target |-> a, key |-> ""]
    /\ writes' = writes + 1
    /\ UNCHANGED <<propertyMap, attributesArg, computer, raised,
                   idA, idB, memberA, memberB, returned>>
    /\ UNCHANGED otherVars

\* a consumer writes into the mapping that getAttributes() returned
WriteAttributes ==
    /\ step # NoStep
    /\ raised = ""
    /\ writes < MaxWrites
    /\ \E self \in Nodes : \E key \in WrittenKeys :
          /\ heap' = [heap EXCEPT ![getAttributes(heap, self).n].items =
                                      Put(@, key, WrittenValue)]
          /\ step' = [name |-> "WriteAttributes", target |-> self, key |-> key]
    /\ writes' = writes + 1
    /\ UNCHANGED <<propertyMap, attributesArg, computer, raised,
                   idA, idB, memberA, memberB, returned>>
    /\ UNCHANGED otherVars

Next ==
    \/ Main
    \/ MutateRaw
    \/ WriteAttributes

Spec == Init /\ [][Next]_vars

---------------------------------------------------------------------------
(* The class resolution alone, on pairs of id strings. *)

IdSuffixes == {<<>>, <<":", "0">>, <<":", "1">>, <<":", "0", ":", "1">>}

IdStrings == {tag \o suffix : tag \in Tags \cup {s_widget, <<>>}, suffix \in IdSuffixes}

InitResolve ==
    /\ heap = <<>>
    /\ propertyMap = NoneV
    /\ attributesArg = NoneV
    /\ computer = NoneV
    /\ raised = ""
    /\ step = NoStep
    /\ writes = 0
    /\ idA \in IdStrings
    /\ idB \in IdStrings
    /\ memberA = ""
    /\ memberB = ""
    /\ returned = NoResult
    /\ OthersIdle

\* idParts = object['id'].split(':'); System.idMap[idParts[0]], for both ids
Resolve ==
    /\ step = NoStep
    /\ memberA' = idMember(Split(idA))
    /\ memberB' = idMember(Split(idB))
    /\ step' = [NoStep EXCEPT !.name = "Resolve"]
    /\ UNCHANGED <<heap, propertyMap, attributesArg, computer, raised, writes,
                   idA, idB, returned>>
    /\ UNCHANGED otherVars

NextResolve ==
    \/ Resolve

SpecResolve == InitResolve /\ [][NextResolve]_vars


---------------------------------------------------------------------------
(* The calls a consumer makes on the nodes of a tree that was built. *)

\* the documents the trees are built from
CalledDocuments ==
    NestedDocuments
        \cup { WithChild(<< <<"errorCount", JN(5)>> >>),
               WithChild(<< <<"size", JArr(<<JN(1), JN(2)>>)>> >>),
               WithChild(<< <<"resources", JObj(<< <<"irq", JN(1)>> >>)>> >>) }

\* the tree is built: the state __main__ leaves behind
InitCalls ==
    /\ \E doc \in CalledDocuments : \E r \in {main(<<>>, doc)} :
          /\ heap = r.h
          /\ propertyMap = r.pm
          /\ attributesArg = r.arg
          /\ computer = r.v
          /\ raised = r.err
    /\ step = [NoStep EXCEPT !.name = "Main"]
    /\ writes = 0
    /\ idA = <<>>
    /\ idB = <<>>
    /\ memberA = ""
    /\ memberB = ""
    /\ returned = NoResult
    /\ OthersIdle

\* the named fields a consumer assigns to
AssignedFields == {"class_", "product"}

\* self.<field> = value, from outside the node
SetField ==
    /\ raised = ""
    /\ writes < MaxWrites
    /\ \E self \in Nodes : \E field \in AssignedFields :
          /\ heap' = [heap EXCEPT ![self].d = Put(@, field, WrittenValue)]
          /\ step' = [name |-> "SetField", target |-> self, key |-> field]
    /\ writes' = writes + 1
    /\ UNCHANGED <<propertyMap, attributesArg, computer, raised,
                   idA, idB, memberA, memberB, returned>>
    /\ UNCHANGED otherVars

\* the entries of the errors mapping integrityCheck returned
ErrorEntries(h, errors) ==
    [i \in DOMAIN h[errors.n].items |->
         <<h[errors.n].items[i][1],
           Get(h[h[errors.n].items[i][2].n].items, "value"),
           Get(h[h[errors.n].items[i][2].n].items, "__dict__ value")>>]

\* errorCount, errors = self.integrityCheck(), called on a node of the tree
IntegrityCheck ==
    /\ raised = ""
    /\ \E self \in Nodes : \E r \in {integrityCheck(heap, self)} :
          /\ returned' = [op |-> "integrityCheck", self |-> self,
                        arg |-> OtherName("None"), v |-> NoneV,
                        err |-> r.err,
                        errorCount |-> r.errorCount,
                        errors |-> IF r.err = ""
                                   THEN ErrorEntries(r.h, r.errors)
                                   ELSE <<>>]
          /\ step' = [name |-> "IntegrityCheck", target |-> self, key |-> ""]
    /\ UNCHANGED <<heap, propertyMap, attributesArg, computer, raised, writes,
                   idA, idB, memberA, memberB>>
    /\ UNCHANGED otherVars

\* the arguments getAttribute is called with: keys of the raw objects, a
\* str that is no key, and values that are not str
AskedArguments ==
    {StrName(name) : name \in {"product", "children", "nope"}}
        \cup {OtherName("None"), OtherName("5")}

\* <Node>.getAttribute(self, name) without the tests: self.attributes[name]
getAttributeSubscript(h, self, arg) ==
    IF arg.isstr
    THEN PyGetItem(h, getAttributes(h, self), arg.name)
    ELSE Raise(h, "KeyError")

\* <Node>.getAttribute(self, name), for any argument
getAttributeCall(h, self, arg) ==
    IF ~arg.isstr
    THEN Ok(h, NoneV)
    ELSE LET found == PyIn(h, arg.name, getAttributes(h, self))
         IN  IF found.err # "" THEN Raise(h, found.err)
             ELSE IF found.b
                  THEN PyGetItem(h, getAttributes(h, self), arg.name)
                  ELSE Ok(h, NoneV)

\* value = self.getAttribute(name), called on a node of the tree
GetAttribute ==
    /\ raised = ""
    /\ \E self \in Nodes : \E arg \in AskedArguments :
          \E r \in {getAttributeCall(heap, self, arg)} :
              /\ heap' = r.h
              /\ returned' = [NoResult EXCEPT !.op = "getAttribute",
                                              !.self = self, !.arg = arg,
                                              !.v = r.v, !.err = r.err]
              /\ step' = [name |-> "GetAttribute", target |-> self,
                          key |-> arg.name]
    /\ UNCHANGED <<propertyMap, attributesArg, computer, raised, writes,
                   idA, idB, memberA, memberB>>
    /\ UNCHANGED otherVars

NextCalls ==
    \/ SetField
    \/ IntegrityCheck
    \/ GetAttribute

SpecCalls == InitCalls /\ [][NextCalls]_vars

---------------------------------------------------------------------------
(* The parser of hardInfo.py on the output of a command. *)

\* model/Lshw.py is not running
LshwIdle ==
    /\ heap = <<>>
    /\ propertyMap = NoneV
    /\ attributesArg = NoneV
    /\ computer = NoneV
    /\ raised = ""
    /\ step = NoStep
    /\ writes = 0
    /\ idA = <<>>
    /\ idB = <<>>
    /\ memberA = ""
    /\ memberB = ""
    /\ returned = NoResult

\* the lines a command prints: an empty line, a banner, warnings, and the
\* lines of JSON documents
OutputLines ==
    { <<>>,
      <<"l", "s">>,
      s_WARNING \o <<":">>,
      <<" ">> \o s_WARNING,
      <<" ", "{">>,
      <<s_quote, "a", s_quote, ":", "1">>,
      <<"}">>,
      <<"{", s_quote, "a", s_quote, ":", "1", "2", "}">> }

\* the texts of at most MaxLines lines
Outputs == {join(lines) : lines \in SeqsUpTo(OutputLines, MaxLines) \ {<<>>}}

InitParser ==
    /\ output \in Outputs
    /\ parsed = NoParsed
    /\ LshwIdle
    /\ arguments = <<>>
    /\ ToolIdle
    /\ WorkersIdle

\* parsed = jsonText_to_map_parser(output)
Parse ==
    /\ ~parsed.done
    /\ parsed' = jsonText_to_map_parser(output)
    /\ UNCHANGED <<output, lshwVars, arguments, toolVars, workerVars>>

NextParser == Parse

SpecParser == InitParser /\ [][NextParser]_vars

---------------------------------------------------------------------------
(* Computer(...) called directly, with wrappers of any type. *)

\* the objects a caller has at hand: the raw attributes, one wrapper of
\* each class, a plain dict and a plain list
CallerHeap ==
    << Obj("dict", << <<"id", Str(<<"h">>)>> >>, <<>>, <<>>),
       Obj("Configuration", <<>>, <<>>, <<>>),
       Obj("Capabilities", <<>>, <<>>, <<>>),
       Obj("CPU_Capabilities", <<>>, <<>>, PutAll(<<>>, CapabilityFields, NoneV)),
       Obj("Children", <<>>, <<>>, << <<"children", NoneV>> >>),
       Obj("dict", <<>>, <<>>, <<>>),
       Obj("list", <<>>, <<>>, <<>>) >>

\* what the caller passes for configuration, capabilities and children
Wrappers == {NoneV, Str(<<"x">>), Num(1)} \cup {Ref(a) : a \in 2..Len(CallerHeap)}

InitConstruct ==
    /\ heap = CallerHeap
    /\ propertyMap = NoneV
    /\ attributesArg = Ref(1)
    /\ computer = NoneV
    /\ raised = ""
    /\ step = NoStep
    /\ writes = 0
    /\ idA = <<>>
    /\ idB = <<>>
    /\ memberA = ""
    /\ memberB = ""
    /\ returned = NoResult
    /\ ParserIdle
    /\ arguments = <<>>
    /\ ToolIdle
    /\ WorkersIdle

\* computer = Computer(attributes, configuration, capabilities, children)
Construct ==
    /\ step = NoStep
    /\ \E configuration, capabilities, children \in Wrappers :
          \E r \in {Computer(heap, attributesArg, configuration, capabilities,
                             children)} :
              /\ arguments' = <<configuration, capabilities, children>>
              /\ heap' = r.h
              /\ computer' = r.v
              /\ raised' = r.err
    /\ step' = [NoStep EXCEPT !.name = "Construct"]
    /\ UNCHANGED <<propertyMap, attributesArg, writes, idA, idB, memberA,
                   memberB, returned, parserVars, toolVars, workerVars>>

NextConstruct == Construct

SpecConstruct == InitConstruct /\ [][NextConstruct]_vars

---------------------------------------------------------------------------
(* CPU_Capabilities built from a mapping of flags, and its integrityCheck. *)

\* most flags of a generated capabilities mapping
MaxFlags == 2

\* the flags: two of the field list, one outside it, the two renamed ones
\* and the names they are renamed to
Flags == {"sse2", "avx", "x86-64", "class", "x86_64", "class_"}
FlagValues == {Str(<<"t">>), Num(1)}

\* the mappings of at most MaxFlags flags to scalars
CapabilityMappings ==
    {m \in SeqsUpTo(Flags \X FlagValues, MaxFlags) :
        \A i, j \in DOMAIN m : i # j => m[i][1] # m[j][1]}

InitCapabilities ==
    /\ \E m \in CapabilityMappings : heap = <<Obj("dict", m, <<>>, <<>>)>>
    /\ propertyMap = NoneV
    /\ attributesArg = NoneV
    /\ computer = NoneV
    /\ raised = ""
    /\ step = NoStep
    /\ writes = 0
    /\ idA = <<>>
    /\ idB = <<>>
    /\ memberA = ""
    /\ memberB = ""
    /\ returned = NoResult
    /\ OthersIdle

\* capabilities = CPU_Capabilities(mapping)
BuildCapabilities ==
    /\ step = NoStep
    /\ \E r \in {CPU_Capabilities(heap, Ref(1))} :
          /\ heap' = r.h
          /\ raised' = r.err
          /\ step' = [NoStep EXCEPT !.name = "BuildCapabilities",
                                    !.target = r.v.n]
    /\ UNCHANGED <<propertyMap, attributesArg, computer, writes, idA, idB,
                   memberA, memberB, returned>>
    /\ UNCHANGED otherVars

\* errorCount, errors = capabilities.integrityCheck()
CheckCapabilities ==
    /\ step.name = "BuildCapabilities"
    /\ raised = ""
    /\ \E r \in {capabilitiesIntegrityCheck(heap, step.target)} :
          returned' = [NoResult EXCEPT !.op = "integrityCheck",
                                      !.self = step.target,
                                      !.err = r.err,
                                      !.errorCount = r.errorCount,
                                      !.errors = IF r.err = ""
                                                 THEN r.errors ELSE <<>>]
    /\ step' = [step EXCEPT !.name = "CheckCapabilities"]
    /\ UNCHANGED <<heap, propertyMap, attributesArg, computer, raised, writes,
                   idA, idB, memberA, memberB>>
    /\ UNCHANGED otherVars

NextCapabilities ==
    \/ BuildCapabilities
    \/ CheckCapabilities

SpecCapabilities == InitCapabilities /\ [][NextCapabilities]_vars

---------------------------------------------------------------------------
(* Properties of the materialized tree.  The shapes of raw objects are
   described here independently of the constructors that consume them. *)

\* the part of an id string before its first ':', the whole string without one
Prefix(cs) ==
    LET colons == {i \in DOMAIN cs : cs[i] = s_colon}
    IN  IF colons = {} THEN cs
        ELSE SubSeq(cs, 1, (CHOOSE i \in colons : \A j \in colons : i <= j) - 1)

\* a raw object that carries an id string with one of the 24 tags
Recognised(h, object) ==
    /\ IsDict(h, object)
    /\ HasKey(h[object.n].items, "id")
    /\ Get(h[object.n].items, "id").k = "str"
    /\ Prefix(Get(h[object.n].items, "id").s) \in Tags

\* a raw value that is an array of objects with recognised ids
RecognisedArray(h, v) ==
    /\ IsList(h, v)
    /\ \A i \in DOMAIN h[v.n].elems : Recognised(h, h[v.n].elems[i])

\* a mapping whose values are all scalars
ScalarMapping(h, v) ==
    /\ IsDict(h, v)
    /\ \A i \in DOMAIN h[v.n].items : ~IsContainer(h, h[v.n].items[i][2])

\* a raw object of the expected shape: an optional id string, optional
\* 'configuration' and 'capabilities' objects of scalars, an optional
\* 'children' array of such objects, and otherwise scalar attributes; with
\* lax, the other attributes may hold any value
RECURSIVE WellFormed(_, _, _)
WellFormed(h, object, lax) ==
    /\ IsDict(h, object)
    /\ \A i \in DOMAIN h[object.n].items :
         LET name == h[object.n].items[i][1]
             value == h[object.n].items[i][2]
         IN  CASE name = "id" -> value.k = "str"
               [] name \in {"configuration", "capabilities"} ->
                     ScalarMapping(h, value)
               [] name = "children" ->
                     /\ IsList(h, value)
                     /\ \A j \in DOMAIN h[value.n].elems :
                            WellFormed(h, h[value.n].elems[j], lax)
               [] OTHER -> lax \/ ~IsContainer(h, value)

\* the typed nodes among the elements of a children collection, in order
TypedElems(h, c) == SelectSeq(h[c].elems, LAMBDA v : IsNode(h, v))

\* the children collections of the tree under computer
ChildrenObjects ==
    {a \in Reach(heap, {computer}, {}) : heap[a].cls = "Children"}

\* the state in which the constructors have just returned
Constructed == step.name = "Main" /\ raised = ""

\* C1: when the 'children' of a raw object is an array of k objects with
\* recognised ids, the children collection of its node has exactly k
\* elements, and it has none when 'children' is absent.
C1_ChildrenCount ==
    Constructed =>
        \A self \in Nodes :
            LET attributes == heap[getAttributes(heap, self).n].items
                children == Get(heap[self].d, "children")
            IN  IF HasKey(attributes, "children")
                THEN RecognisedArray(heap, Get(attributes, "children")) =>
                        /\ IsList(heap, children)
                        /\ Len(heap[children.n].elems)
                              = Len(heap[Get(attributes, "children").n].elems)
                ELSE /\ IsList(heap, children)
                     /\ Len(heap[children.n].elems) = 0

\* the raw array a children collection was built from holds k >= 2 objects
\* with recognised ids, the first two of them different
OrderedCase(c) ==
    LET raw == Get(heap[c].d, "children")
    IN  /\ RecognisedArray(heap, raw)
        /\ Len(heap[raw.n].elems) >= 2
        /\ ~PyEq(heap, heap[raw.n].elems[1], heap[raw.n].elems[2])

\* C2: the typed child nodes of a children collection stand in the order of
\* the raw objects of the array they were built from: the i-th typed node
\* holds the attributes of the i-th raw object, and the array
\* [cache:0, bank:0] gives a Cache node then a Bank node.
C2_ChildOrder ==
    Constructed =>
        \A c \in ChildrenObjects :
            LET raw == Get(heap[c].d, "children")
                typed == TypedElems(heap, c)
            IN  RecognisedArray(heap, raw) =>
                  /\ Len(typed) = Len(heap[raw.n].elems)
                  /\ \A i \in DOMAIN typed :
                        PyEq(heap, getAttributes(heap, typed[i].n),
                             heap[raw.n].elems[i])
                  /\ [i \in DOMAIN typed |->
                          Prefix(Get(heap[heap[raw.n].elems[i].n].items, "id").s)]
                        = <<HardwareId.Cache, HardwareId.Bank>>
                     => [i \in DOMAIN typed |-> heap[typed[i].n].cls]
                           = <<"Cache", "Bank">>

C2_Witness ==
    /\ Constructed
    /\ \E c \in ChildrenObjects :
          /\ OrderedCase(c)
          /\ [i \in DOMAIN TypedElems(heap, c) |->
                  heap[TypedElems(heap, c)[i].n].cls] = <<"Cache", "Bank">>

\* C3: after construction, every scalar entry f of a node's raw attributes
\* is the value of the node's field f (class_ for 'class') and the value
\* getAttribute(f) returns, whatever the name f is.
C3_ScalarFields ==
    Constructed =>
        \A self \in Nodes :
            LET attributes == heap[getAttributes(heap, self).n].items
            IN  \A i \in DOMAIN attributes :
                    LET f == attributes[i][1]
                        value == attributes[i][2]
                        field == IF f = "class" THEN "class_" ELSE f
                    IN  ~IsContainer(heap, value) =>
                            /\ HasKey(heap[self].d, field)
                            /\ Get(heap[self].d, field) = value
                            /\ getAttribute(heap, self, f) = value


\* the value v has in heap h1 is the value w has in heap h2: equal scalars,
\* or objects of the same class with the same entries in the same order
RECURSIVE SameValue(_, _, _, _)
SameValue(h1, v, h2, w) ==
    IF IsRef(v) /\ IsRef(w)
    THEN LET a == h1[v.n]
             b == h2[w.n]
         IN  /\ a.cls = b.cls
             /\ Len(a.items) = Len(b.items)
             /\ \A i \in DOMAIN a.items :
                    /\ a.items[i][1] = b.items[i][1]
                    /\ SameValue(h1, a.items[i][2], h2, b.items[i][2])
             /\ Len(a.elems) = Len(b.elems)
             /\ \A i \in DOMAIN a.elems :
                    SameValue(h1, a.elems[i], h2, b.elems[i])
    ELSE v = w

\* the names a consumer may ask getAttribute for
AskedNames ==
    WrittenKeys \cup {"id", "class", "width", "configuration", "capabilities",
                      "children"}

\* the step leaves what getAttributes() and getAttribute(name) return, for
\* every node of the tree, as it was
AttributesUnchanged ==
    \A self \in Nodes :
        /\ SameValue(heap, getAttributes(heap, self),
                     heap', getAttributes(heap', self))
        /\ \A name \in AskedNames :
               SameValue(heap, getAttribute(heap, self, name),
                         heap', getAttribute(heap', self, name))

\* C4: after the constructors have returned, a caller's change to a raw
\* object that was passed to them (an entry set, added or removed, at the
\* top level or nested) changes nothing getAttributes() or
\* getAttribute(name) return, on any node.
C4_RawMutationIsolated ==
    [][step'.name = "MutateRaw" => AttributesUnchanged]_vars

\* a caller has set 'product' on the raw object a typed child node was
\* built from, and the node still answers with its own value
C4_Witness ==
    /\ step.name = "MutateRaw"
    /\ step.key = "product"
    /\ \E c \in ChildrenObjects :
          LET raw == Get(heap[c].d, "children")
              typed == TypedElems(heap, c)
          IN  /\ RecognisedArray(heap, raw)
              /\ \E i \in DOMAIN typed :
                    /\ heap[raw.n].elems[i] = Ref(step.target)
                    /\ Get(heap[step.target].items, "product") = WrittenValue
                    /\ getAttribute(heap, typed[i].n, "product") # WrittenValue

\* C5: writing into the mapping getAttributes() returned changes nothing
\* that later getAttributes() and getAttribute(name) calls return, on any
\* node.
C5_ReadOnlyView ==
    [][step'.name = "WriteAttributes" => AttributesUnchanged]_vars

\* C6: the member an id string resolves to depends on its prefix alone: two
\* ids with the same prefix resolve alike, a prefix that is one of the 24
\* tags resolves to the member whose value is that tag, and cpu:0 and cpu:1
\* both resolve to CPU.
C6_ClassResolution ==
    step.name = "Resolve" =>
        /\ Prefix(idA) = Prefix(idB) => memberA = memberB
        /\ Prefix(idA) \in Tags =>
              /\ memberA \in DOMAIN HardwareId
              /\ HardwareId[memberA] = Prefix(idA)
        /\ (idA = Indexed(HardwareId.CPU, "0")
                /\ idB = Indexed(HardwareId.CPU, "1")) =>
              (memberA = "CPU" /\ memberB = "CPU")

C6_Witness ==
    /\ step.name = "Resolve"
    /\ idA = Indexed(HardwareId.CPU, "0")
    /\ idB = Indexed(HardwareId.CPU, "1")
    /\ memberA = "CPU"
    /\ memberB = "CPU"


\* an object with an id string whose prefix is none of the 24 tags
UnknownId(h, object) ==
    /\ IsDict(h, object)
    /\ HasKey(h[object.n].items, "id")
    /\ Get(h[object.n].items, "id").k = "str"
    /\ Prefix(Get(h[object.n].items, "id").s) \notin Tags

\* the array v holds an object with an unknown id, itself or in the
\* 'children' array of one of its objects with a recognised id
RECURSIVE HasUnknownId(_, _)
HasUnknownId(h, v) ==
    /\ IsList(h, v)
    /\ \E i \in DOMAIN h[v.n].elems :
          LET object == h[v.n].elems[i]
          IN  \/ UnknownId(h, object)
              \/ /\ Recognised(h, object)
                 /\ HasKey(h[object.n].items, "children")
                 /\ HasUnknownId(h, Get(h[object.n].items, "children"))

\* the document the program read is an object
DocumentRead == step.name = "Main" /\ IsDict(heap, propertyMap)

\* the 'children' of the document, None without one
DocumentChildren ==
    IF HasKey(heap[propertyMap.n].items, "children")
    THEN Get(heap[propertyMap.n].items, "children")
    ELSE NoneV

\* C7: a document of the expected shape whose 'children' arrays hold an
\* object with an id prefix outside the 24 tags, with capabilities or
\* without, ends in a KeyError that nothing catches: no tree is returned.
C7_UnknownPrefixFails ==
    (/\ DocumentRead
     /\ WellFormed(heap, propertyMap, FALSE)
     /\ HasUnknownId(heap, DocumentChildren))
        => (raised = "KeyError" /\ computer = NoneV)

\* the failing object stands in the document's own array and has capabilities
C7_Witness ==
    /\ DocumentRead
    /\ WellFormed(heap, propertyMap, FALSE)
    /\ IsList(heap, DocumentChildren)
    /\ \E i \in DOMAIN heap[DocumentChildren.n].elems :
          /\ UnknownId(heap, heap[DocumentChildren.n].elems[i])
          /\ HasKey(heap[heap[DocumentChildren.n].elems[i].n].items,
                    "capabilities")
    /\ raised = "KeyError"
    /\ computer = NoneV

\* the object has a 'children' that is no array, itself or in an object
\* with a recognised id of its 'children' array
RECURSIVE HasNonArrayChildren(_, _)
HasNonArrayChildren(h, object) ==
    /\ IsDict(h, object)
    /\ HasKey(h[object.n].items, "children")
    /\ LET children == Get(h[object.n].items, "children")
       IN  \/ ~IsList(h, children)
           \/ \E i \in DOMAIN h[children.n].elems :
                 /\ Recognised(h, h[children.n].elems[i])
                 /\ HasNonArrayChildren(h, h[children.n].elems[i])

\* C8: a document in which an object has a 'children' that is present but
\* is no array (a string, a number, an object) raises, and no tree is
\* returned.
C8_NonArrayChildrenRaises ==
    (DocumentRead /\ HasNonArrayChildren(heap, propertyMap))
        => (raised # "" /\ computer = NoneV)

\* the nodes whose constructor has completed: integrityCheck has returned
\* and its errors mapping is stored
BuiltNodes ==
    {a \in DOMAIN heap :
        /\ IsNode(heap, Ref(a))
        /\ HasKey(heap[a].d, "errors")
        /\ IsDict(heap, Get(heap[a].d, "errors"))}

\* C9: every node built from a document of the expected shape (scalar
\* attributes, 'configuration' and 'capabilities' objects, 'children' arrays
\* of such objects) has errorCount 0 and an empty errors mapping, at every
\* depth.
C9_WellFormedNoErrors ==
    (DocumentRead /\ WellFormed(heap, propertyMap, FALSE)) =>
        \A self \in BuiltNodes :
            /\ Get(heap[self].d, "errorCount") = Num(0)
            /\ heap[Get(heap[self].d, "errors").n].items = <<>>

\* a tree of three levels was built, its nodes having a 'class' attribute
C9_Witness ==
    /\ DocumentRead
    /\ WellFormed(heap, propertyMap, FALSE)
    /\ raised = ""
    /\ \E c \in ChildrenObjects : \E i \in DOMAIN TypedElems(heap, c) :
          LET child == TypedElems(heap, c)[i].n
              below == Get(heap[child].d, "children")
          IN  /\ getAttribute(heap, child, "class") # NoneV
              /\ IsList(heap, below)
              /\ TypedElems(heap, below.n) # <<>>
              /\ Get(heap[child].d, "errorCount") = Num(0)
              /\ \A j \in DOMAIN TypedElems(heap, below.n) :
                    Get(heap[TypedElems(heap, below.n)[j].n].d, "errorCount")
                       = Num(0)

\* C10: the integrity check is never fatal: whatever the values of the
\* attributes of the objects of a document (their ids recognised, their
\* 'configuration', 'capabilities' and 'children' of the expected shape),
\* every constructor completes and the tree is returned.
C10_IntegrityCheckNeverFatal ==
    (/\ DocumentRead
     /\ WellFormed(heap, propertyMap, TRUE)
     /\ ~HasUnknownId(heap, DocumentChildren))
        => (raised = "" /\ computer # NoneV)


\* the errors mapping integrityCheck stored on a built node
ErrorsOf(self) == heap[Get(heap[self].d, "errors").n].items

\* C11: integrityCheck compares scalar raw values only: no raw attribute
\* whose value is a list (a declared field such as 'size' given as an array
\* included) has an entry in errors or counts in errorCount.
C11_ListValuesNotCompared ==
    DocumentRead =>
        \A self \in BuiltNodes :
            LET attributes == heap[getAttributes(heap, self).n].items
                listed == {i \in DOMAIN attributes :
                              IsList(heap, attributes[i][2])}
            IN  /\ \A i \in listed :
                       ~HasKey(ErrorsOf(self), FieldName(attributes[i][1]))
                /\ (listed # {} /\ \A i \in DOMAIN attributes \ listed :
                                      ~IsContainer(heap, attributes[i][2]))
                      => Get(heap[self].d, "errorCount") = Num(0)


\* the field named for the raw key f
FieldFor(f) == IF f = "class" THEN "class_" ELSE f

\* the raw keys of a node, other than 'children' and 'logicalname', whose
\* named field does not hold the raw value
Differing(self) ==
    LET attributes == heap[getAttributes(heap, self).n].items
    IN  {f \in Keys(attributes) \ {"children", "logicalname"} :
            \/ ~HasKey(heap[self].d, FieldFor(f))
            \/ ~PyEq(heap, Get(attributes, f), Get(heap[self].d, FieldFor(f)))}

\* C12: when exactly one named field f of a node differs from
\* attributes[f], integrityCheck returns errorCount >= 1 and an errors
\* mapping with one entry, for that field (class_ for 'class'), that
\* records the raw value and the field's value; no other field has an entry.
C12_MismatchReported ==
    (/\ step.name = "IntegrityCheck"
     /\ IsDict(heap, getAttributes(heap, returned.self))
     /\ Cardinality(Differing(returned.self)) = 1
     /\ \A f \in Differing(returned.self) :
            HasKey(heap[returned.self].d, FieldFor(f)))
        => /\ returned.err = ""
           /\ returned.errorCount >= 1
           /\ \A f \in Differing(returned.self) :
                 returned.errors =
                    << <<FieldFor(f),
                         getAttribute(heap, returned.self, f),
                         Get(heap[returned.self].d, FieldFor(f))>> >>

\* a consumer has assigned class_ on a node built without errors, and the
\* check reports class_ alone
C12_Witness ==
    /\ step.name = "IntegrityCheck"
    /\ writes = 1
    /\ Get(heap[returned.self].d, "errorCount") = Num(0)
    /\ Differing(returned.self) = {"class"}
    /\ returned.errorCount = 1
    /\ returned.errors[1][1] = "class_"
    /\ returned.errors[1][3] = WrittenValue


\* the class of the object a value refers to, the kind of a scalar
ClassOf(h, v) == IF IsRef(v) THEN h[v.n].cls ELSE v.k

\* C13: the capabilities of a child node is a CPU_Capabilities exactly when
\* its raw object has a 'capabilities' key and the id prefix cpu, a plain
\* Capabilities with the key and another recognised prefix, and None
\* without the key.
C13_CapabilitiesClass ==
    Constructed =>
        \A c \in ChildrenObjects :
            LET raw == Get(heap[c].d, "children")
                typed == TypedElems(heap, c)
            IN  RecognisedArray(heap, raw) =>
                  \A i \in DOMAIN typed :
                      LET object == heap[heap[raw.n].elems[i].n].items
                          cls == ClassOf(heap,
                                         Get(heap[typed[i].n].d, "capabilities"))
                          cpu == Prefix(Get(object, "id").s) = HardwareId.CPU
                      IN  IF HasKey(object, "capabilities")
                          THEN cls = IF cpu THEN "CPU_Capabilities"
                                     ELSE "Capabilities"
                          ELSE cls = "none"


\* the raw object is the cpu:0 object 'Test CPU' with its two capabilities
IsTestCPU(h, object) ==
    /\ IsDict(h, object)
    /\ [i \in DOMAIN h[object.n].items |-> h[object.n].items[i][1]]
          = <<"id", "class", "product", "capabilities">>
    /\ Get(h[object.n].items, "id") = Str(Indexed(HardwareId.CPU, "0"))
    /\ Get(h[object.n].items, "class") = Str(s_processor)
    /\ Get(h[object.n].items, "product") = Str(s_TestCPU)
    /\ IsDict(h, Get(h[object.n].items, "capabilities"))
    /\ h[Get(h[object.n].items, "capabilities").n].items
          = << <<"sse2", Str(s_true)>>, <<"x86-64", Str(s_x86_64)>> >>

\* the typed child built from the cpu:0 object 'Test CPU': a CPU node with
\* that product, its capabilities holding the fields sse2 and x86_64, and
\* no integrity error
TestCPUNode(self) ==
    /\ heap[self].cls = "CPU"
    /\ Get(heap[self].d, "product") = Str(s_TestCPU)
    /\ ClassOf(heap, Get(heap[self].d, "capabilities")) = "CPU_Capabilities"
    /\ LET fields == heap[Get(heap[self].d, "capabilities").n].d
       IN  /\ HasKey(fields, "sse2")
           /\ Get(fields, "sse2") = Str(s_true)
           /\ HasKey(fields, "x86_64")
           /\ Get(fields, "x86_64") = Str(s_x86_64)
    /\ Get(heap[self].d, "errorCount") = Num(0)

\* C14: the child object {id: cpu:0, class: processor, product: Test CPU,
\* capabilities: {sse2: true, x86-64: 64bits extensions (x86-64)}} is
\* materialized as a CPU node with product Test CPU, capabilities fields
\* sse2 = true and x86_64 = 64bits extensions (x86-64), and errorCount 0.
C14_TestCPU ==
    Constructed =>
        \A c \in ChildrenObjects :
            LET raw == Get(heap[c].d, "children")
                typed == TypedElems(heap, c)
            IN  RecognisedArray(heap, raw) =>
                  \A i \in DOMAIN heap[raw.n].elems :
                      IsTestCPU(heap, heap[raw.n].elems[i]) =>
                          /\ i \in DOMAIN typed
                          /\ TestCPUNode(typed[i].n)

C14_Witness ==
    /\ Constructed
    /\ \E c \in ChildrenObjects :
          /\ RecognisedArray(heap, Get(heap[c].d, "children"))
          /\ \E i \in DOMAIN TypedElems(heap, c) :
                /\ IsTestCPU(heap, heap[Get(heap[c].d, "children").n].elems[i])
                /\ TestCPUNode(TypedElems(heap, c)[i].n)


\* the CPU_Capabilities objects of the tree under computer
CapabilityObjects ==
    {a \in Reach(heap, {computer}, {}) : heap[a].cls = "CPU_Capabilities"}

\* C15: a capability flag that is not in the fixed field list does not
\* become a named field: the named fields of every CPU_Capabilities object
\* are the fields of the list, whatever the input.
C15_FixedCapabilityFields ==
    Constructed =>
        \A a \in CapabilityObjects :
            Keys(heap[a].d) \subseteq {CapabilityFields[i] : i \in DOMAIN CapabilityFields}


\* C16: getAttribute(name) on a node returns attributes[name] when name is
\* a str that is a key of the node's raw attributes and None otherwise,
\* also for a name that is not a str; it never raises and leaves every
\* object as it was.
C16_GetAttribute ==
    [][step'.name = "GetAttribute" =>
          LET attributes == heap[getAttributes(heap, returned'.self).n].items
              arg == returned'.arg
          IN  /\ returned'.err = ""
              /\ returned'.v = IF arg.isstr /\ HasKey(attributes, arg.name)
                               THEN Get(attributes, arg.name)
                               ELSE NoneV
              /\ heap' = heap]_vars

C16_Witness ==
    /\ step.name = "GetAttribute"
    /\ returned.arg = StrName("product")
    /\ returned.err = ""
    /\ HasKey(heap[getAttributes(heap, returned.self).n].items, "product")
    /\ HasKey(heap[returned.self].d, "product")
    /\ returned.v = Get(heap[getAttributes(heap, returned.self).n].items, "product")
    /\ returned.v # Get(heap[returned.self].d, "product")


\* C17: the tree shares no mutable object with the input document: a
\* caller's change to the 'children' array of the document or to a raw
\* child object in it leaves every object reachable from the tree, the
\* children collections and their elements included, as it was.
C17_NoSharedObjects ==
    [][step'.name = "MutateRaw" =>
          \A a \in Reach(heap, {computer}, {}) : heap'[a] = heap[a]]_vars


\* the node class named for each tag
ClassNamedFor ==
    [ Core |-> "Core", Firmware |-> "Firmware", CPU |-> "CPU", Cache |-> "Cache",
      Memory |-> "Memory", Bank |-> "Bank", PCI |-> "PCI", Display |-> "Display",
      Communication |-> "Communication", USB |-> "USB", UsbHost |-> "USBhost",
      MultiMedia |-> "Multimedia", Generic |-> "Generic", FireWire |-> "FireWire",
      Network |-> "Network", ISA |-> "ISA", Storage |-> "Storage", SCSI |-> "SCSI",
      Disk |-> "Disk", Volume |-> "Volume", LogicalVolume |-> "LogicalVolume",
      CD_ROM |-> "CD_ROM", Medium |-> "Medium", Battery |-> "Battery" ]

\* C18: a child whose id prefix is one of the 24 tags is materialized as
\* an instance of the node class named for that tag (firewire as FireWire),
\* so that children of two distinct tags are never of the same class.
C18_DispatchByTag ==
    Constructed =>
        \A c \in ChildrenObjects :
            LET raw == Get(heap[c].d, "children")
                typed == TypedElems(heap, c)
                tag(i) == Prefix(Get(heap[heap[raw.n].elems[i].n].items, "id").s)
            IN  RecognisedArray(heap, raw) =>
                  /\ \A i \in DOMAIN typed :
                        heap[typed[i].n].cls = ClassNamedFor[idMap[tag(i)]]
                  /\ \A i, j \in DOMAIN typed :
                        tag(i) # tag(j) => heap[typed[i].n].cls # heap[typed[j].n].cls


\* the fields every node has besides the ones declared for its class
SystemFields ==
    {"attributes", "configuration", "capabilities", "children", "errorCount",
     "errors"}

\* C19: a scalar key of the raw object becomes a named field of the node
\* only if it is one of the fields declared for the node's class: a scalar
\* key outside the declared set ('serial' on a Cache node) is no named field.
C19_OnlyDeclaredFields ==
    Constructed =>
        \A self \in Nodes :
            LET attributes == heap[getAttributes(heap, self).n].items
                declared == {Declared[heap[self].cls][i] :
                                 i \in DOMAIN Declared[heap[self].cls]}
            IN  \A i \in DOMAIN attributes :
                    /\ ~IsContainer(heap, attributes[i][2])
                    /\ FieldFor(attributes[i][1]) \notin declared \cup SystemFields
                    => ~HasKey(heap[self].d, FieldFor(attributes[i][1]))


\* the raw keys of a node whose value is an object or an array, other than
\* the keys named like the fields every node has
ContainerKeys(self) ==
    LET attributes == heap[getAttributes(heap, self).n].items
    IN  {f \in Keys(attributes) \ SystemFields :
            IsContainer(heap, Get(attributes, f))}

\* C20: a raw attribute whose value is an object or an array is never
\* copied onto a named field: a field declared for the class still holds
\* None, an undeclared one does not exist, and the value is in the raw
\* attributes of the node as it is in the raw object.
C20_ContainersNotCopied ==
    Constructed =>
        /\ \A self \in Nodes : \A f \in ContainerKeys(self) :
              IF \E i \in DOMAIN Declared[heap[self].cls] :
                     Declared[heap[self].cls][i] = FieldFor(f)
              THEN Get(heap[self].d, FieldFor(f)) = NoneV
              ELSE ~HasKey(heap[self].d, FieldFor(f))
        /\ \A c \in ChildrenObjects :
              LET raw == Get(heap[c].d, "children")
                  typed == TypedElems(heap, c)
              IN  RecognisedArray(heap, raw) =>
                    \A i \in DOMAIN typed :
                        LET object == heap[heap[raw.n].elems[i].n].items
                            attributes ==
                                heap[getAttributes(heap, typed[i].n).n].items
                        IN  \A f \in Keys(object) :
                                IsContainer(heap, Get(object, f)) =>
                                    /\ HasKey(attributes, f)
                                    /\ SameValue(heap, Get(attributes, f),
                                                 heap, Get(object, f))

C20_Witness ==
    /\ Constructed
    /\ \E self \in Nodes :
          /\ "size" \in ContainerKeys(self)
          /\ Get(heap[self].d, "size") = NoneV
          /\ IsList(heap, getAttribute(heap, self, "size"))
          /\ Len(heap[getAttribute(heap, self, "size").n].elems) = 2


\* C21: a child object without an 'id' key is materialized too: the
\* children collection holds one typed node for each raw child object,
\* whether or not the object carries an 'id'.
C21_NodeWithoutId ==
    Constructed =>
        \A c \in ChildrenObjects :
            LET raw == Get(heap[c].d, "children")
            IN  (/\ IsList(heap, raw)
                 /\ \A i \in DOMAIN heap[raw.n].elems :
                        IsDict(heap, heap[raw.n].elems[i]))
                => Len(TypedElems(heap, c)) = Len(heap[raw.n].elems)


\* the objects the caller of the constructors can reach
CallerReach == Reach(heap, {computer, propertyMap, attributesArg}, {})

\* C22: a failure while an element of the 'children' array is materialized
\* propagates to the caller and leaves the siblings that were materialized
\* before it reachable by the caller.
C22_SiblingsKept ==
    (/\ DocumentRead
     /\ IsList(heap, DocumentChildren)
     /\ Len(heap[DocumentChildren.n].elems) >= 2
     /\ Recognised(heap, heap[DocumentChildren.n].elems[1])
     /\ WellFormed(heap, heap[DocumentChildren.n].elems[1], FALSE)
     /\ UnknownId(heap, heap[DocumentChildren.n].elems[2]))
        => /\ raised # ""
           /\ \E a \in CallerReach :
                 /\ IsNode(heap, Ref(a))
                 /\ Get(heap[getAttributes(heap, a).n].items, "id")
                       = Get(heap[heap[DocumentChildren.n].elems[1].n].items, "id")


\* the raw tree under object: its 'children', when present, is an array of
\* objects with recognised ids that are raw trees themselves
RECURSIVE RawTree(_, _)
RawTree(h, object) ==
    /\ IsDict(h, object)
    /\ HasKey(h[object.n].items, "children") =>
          LET children == Get(h[object.n].items, "children")
          IN  /\ IsList(h, children)
              /\ \A i \in DOMAIN h[children.n].elems :
                     /\ Recognised(h, h[children.n].elems[i])
                     /\ RawTree(h, h[children.n].elems[i])

\* the node self is the typed node of the raw object, at every depth: its
\* children collection holds one typed node for each element of the
\* object's own 'children' array, in order, and none without the key
RECURSIVE Materialized(_, _, _)
Materialized(h, self, object) ==
    /\ IsNode(h, Ref(self))
    /\ HasKey(h[self].d, "errorCount")
    /\ Get(h[getAttributes(h, self).n].items, "id") = Get(h[object.n].items, "id")
    /\ LET c == Get(h[self].d, "children")
       IN  /\ ClassOf(h, c) = "Children"
           /\ IF HasKey(h[object.n].items, "children")
              THEN LET raw == h[Get(h[object.n].items, "children").n].elems
                       typed == TypedElems(h, c.n)
                   IN  /\ Len(typed) = Len(raw)
                       /\ \A i \in DOMAIN typed :
                              Materialized(h, typed[i].n, raw[i])
              ELSE h[c.n].elems = <<>>

\* C23: materialization of a raw tree in which every object has a
\* recognised id completes at every depth: one typed node per raw object,
\* the children of each node built from the object's own 'children' array,
\* and an empty children collection for an object without the key.
C23_CompleteAtEveryDepth ==
    (/\ DocumentRead
     /\ HasKey(heap[propertyMap.n].items, "id")
     /\ RawTree(heap, propertyMap))
        => /\ raised = ""
           /\ Materialized(heap, computer.n, propertyMap)


\* the line does not start with '{' once stripped
IsBanner(line) == strip(line) = <<>> \/ strip(line)[1] # "{"

\* the text is zero or more such lines followed by one well-formed JSON
\* document and nothing after it; Document(text) is that document
DocumentStarts(text) ==
    LET lines == splitLines(text)
    IN  {k \in DOMAIN lines :
            /\ \A i \in 1..(k - 1) : IsBanner(lines[i])
            /\ ~IsBanner(lines[k])
            /\ jsonLoads(join(SubSeq(lines, k, Len(lines)))).err = ""}

\* C24: on banner or warning lines followed by one well-formed JSON
\* document and no further line, jsonText_to_map_parser returns the mapping
\* the document encodes; it returns the empty mapping only when no line
\* starts with '{'.
C24_ParserReturnsDocument ==
    parsed.done =>
        LET lines == splitLines(output)
        IN  /\ \A k \in DocumentStarts(output) :
                  /\ parsed.err = ""
                  /\ parsed.v = jsonLoads(join(SubSeq(lines, k, Len(lines)))).v
            /\ (parsed.err = "" /\ parsed.v = <<>>) =>
                  \A i \in DOMAIN lines : IsBanner(lines[i])


\* the value is None or an instance of one of the classes
NoneOrInstance(v, classes) ==
    v = NoneV \/ (IsRef(v) /\ CallerHeap[v.n].cls \in classes)

\* the three wrappers have the types System.__init__ asks for
RightlyTyped ==
    /\ NoneOrInstance(arguments[1], {"Configuration"})
    /\ NoneOrInstance(arguments[2], {"Capabilities", "CPU_Capabilities"})
    /\ NoneOrInstance(arguments[3], {"Children"})

\* C25: Computer(...) with a configuration, capabilities or children that
\* is neither None nor an instance of its wrapper class raises Exception
\* before any field is set; with None or an instance for each of the three
\* the check passes and the node holds the three wrappers.
C25_CheckArguments ==
    step.name = "Construct" =>
        IF RightlyTyped
        THEN /\ raised = ""
             /\ Get(heap[computer.n].d, "configuration") = arguments[1]
             /\ Get(heap[computer.n].d, "capabilities") = arguments[2]
             /\ Get(heap[computer.n].d, "children") = arguments[3]
        ELSE /\ raised = "Exception"
             /\ computer = NoneV
             /\ heap = CallerHeap

C25_Witness ==
    /\ step.name = "Construct"
    /\ arguments = <<Ref(2), Ref(3), Ref(7)>>
    /\ raised = "Exception"
    /\ heap = CallerHeap


\* C26: CPU_Capabilities.integrityCheck returns (0, {}) without raising
\* for every mapping of flags to scalars, a mapping with the key 'x86-64'
\* or the key 'class' included.
C26_CapabilitiesCheckClean ==
    step.name = "CheckCapabilities" =>
        /\ returned.err = ""
        /\ returned.errorCount = 0
        /\ returned.errors = <<>>


\* Objects are allocated in the order in which the constructors run, so an
\* address tells when the object came to be: a node when System.__init__
\* set its first fields, its attributes when they were copied, its errors
\* mapping when its integrityCheck returned.

\* the nodes that exist, built or not
HeapNodes == {a \in DOMAIN heap : IsNode(heap, Ref(a))}

\* the typed nodes of the children collection of the node n
NodesBelow(n) ==
    IF ClassOf(heap, Get(heap[n].d, "children")) = "Children"
    THEN {v.n : v \in {heap[Get(heap[n].d, "children").n].elems[i] :
                          i \in DOMAIN heap[Get(heap[n].d, "children").n].elems}
                      \cap {Ref(a) : a \in HeapNodes}}
    ELSE {}

\* the children collection holds a typed node for every raw object with an
\* 'id' that it was given
CollectionComplete(c) ==
    LET raw == Get(heap[c].d, "children")
    IN  IsList(heap, raw) =>
            Len(TypedElems(heap, c))
                = Cardinality({i \in DOMAIN heap[raw.n].elems :
                                   /\ IsDict(heap, heap[raw.n].elems[i])
                                   /\ HasKey(heap[heap[raw.n].elems[i].n].items, "id")})

\* C27: construction is bottom-up.  When a node has any field set, its
\* children collection is complete and every node in it has its errorCount
\* and errors set, by an integrityCheck that returned before the node's
\* first field was set and before its attributes were copied; and after an
\* error no node has a field set that was constructed later than a node
\* whose integrityCheck did not return.
C27_BottomUp ==
    step.name = "Main" =>
        \A n \in HeapNodes :
            /\ ClassOf(heap, Get(heap[n].d, "children")) = "Children" =>
                   CollectionComplete(Get(heap[n].d, "children").n)
            /\ \A m \in NodesBelow(n) :
                   /\ HasKey(heap[m].d, "errorCount")
                   /\ HasKey(heap[m].d, "errors")
                   /\ Get(heap[m].d, "errors").n < n
                   /\ HasKey(heap[n].d, "attributes") /\ IsRef(Get(heap[n].d, "attributes"))
                          => Get(heap[m].d, "errors").n < Get(heap[n].d, "attributes").n
            /\ ~HasKey(heap[n].d, "errorCount") =>
                   /\ raised # ""
                   /\ \A later \in HeapNodes : later <= n

\* a node two levels above a leaf was built, after the nodes below it
C27_Witness ==
    /\ step.name = "Main"
    /\ raised = ""
    /\ \E n \in HeapNodes : \E m \in NodesBelow(n) : \E l \in NodesBelow(m) :
          /\ HasKey(heap[n].d, "errorCount")
          /\ Get(heap[l].d, "errors").n < m
          /\ Get(heap[m].d, "errors").n < n

---------------------------------------------------------------------------
(* model/Tools.py: a Tool runs one Linux command and parses its output. *)

\* most calls of Tool.run on one Tool
MaxRuns == 3

\* lastRunTime = None
NoTime == 0

\* a value of lastRunOutput, or one returned by run: None, the decoded
\* output of the command, what outputParser made of it, or the error text
\* 'at:\t<time>\n<exception>...'
ToolValue(kind, at, text) == [kind |-> kind, at |-> at, text |-> text]

NoOutput == ToolValue("None", NoTime, "")

\* run was not called yet
NotRun == [done |-> FALSE, err |-> "", v |-> NoOutput]

\* what the operating system and the output parser do during one run:
\* Popen starts the command or raises (command not installed, an argument
\* that is no string), the output decodes as UTF-8 to a text or does not,
\* outputParser returns or raises an Exception
RunOutcomes ==
    [launch : {"started", "raises"},
     output : {"a", "b", "undecodable"},
     parser : {"returns", "raises"}]

\* the body of the try statement of Tool.run, up to its return or to the
\* exception that leaves it
runTry(self, env, now) ==
    IF env.launch = "raises"
    THEN [self |-> self, exc |-> "OSError", v |-> NoOutput]
    ELSE IF env.output = "undecodable"
    THEN [self |-> [self EXCEPT !.lastRunTime = now],
          exc |-> "UnicodeDecodeError", v |-> NoOutput]
    ELSE [self |-> [self EXCEPT
                       !.lastRunTime = now,
                       !.lastRunOutput = ToolValue("output", NoTime, env.output),
                       !.runlog = IF self.logging
                                  THEN Append(@, <<now, env.output>>)
                                  ELSE @],
          exc |-> IF env.parser = "raises" THEN "Exception" ELSE "",
          v |-> ToolValue("parsed", NoTime, env.output)]

\* the except clause of Tool.run: it builds the error text from
\* self.lastRunTime.ctime(), which None does not have
runExcept(self, exc) ==
    IF self.lastRunTime = NoTime
    THEN [self |-> self, err |-> "AttributeError", v |-> NoOutput]
    ELSE [self |-> [self EXCEPT
                       !.lastRunOutput = ToolValue("error", self.lastRunTime, exc)],
          err |-> "", v |-> ToolValue("error", self.lastRunTime, exc)]

\* Tool.run()
run(self, env, now) ==
    LET tried(t) == IF t.exc = ""
                    THEN [self |-> t.self, err |-> "", v |-> t.v]
                    ELSE runExcept(t.self, t.exc)
    IN  tried(runTry(self, env, now))

\* the Tool as one object
ToolSelf ==
    [logging |-> logging, lastRunTime |-> lastRunTime,
     lastRunOutput |-> lastRunOutput, runlog |-> runlog]

\* after Tool.__init__(commandName, argumentList, outputParser, logging)
InitTool ==
    /\ logging \in BOOLEAN
    /\ lastRunTime = NoTime
    /\ lastRunOutput = NoOutput
    /\ runlog = <<>>
    /\ ran = NotRun
    /\ runCount = 0
    /\ LshwIdle
    /\ ParserIdle
    /\ arguments = <<>>
    /\ WorkersIdle

\* ran = tool.run(), the caller going on after an exception
Run ==
    /\ runCount < MaxRuns
    /\ \E env \in RunOutcomes :
          \E r \in {run(ToolSelf, env, runCount + 1)} :
              /\ lastRunTime' = r.self.lastRunTime
              /\ lastRunOutput' = r.self.lastRunOutput
              /\ runlog' = r.self.runlog
              /\ ran' = [done |-> TRUE, err |-> r.err, v |-> r.v]
    /\ runCount' = runCount + 1
    /\ UNCHANGED <<logging, lshwVars, parserVars, arguments, workerVars>>

NextTool == Run

SpecTool == InitTool /\ [][NextTool]_vars

\* C28: Tool.run never propagates an exception: every call returns what
\* the output parser returned or an error text, the first call on a fresh
\* Tool whose command cannot be launched included.
C28_RunNeverPropagates ==
    ran.done => /\ ran.err = ""
                /\ ran.v.kind \in {"parsed", "error"}

\* once the command was launched, run returns the parser's result or the
\* error text, whatever goes wrong afterwards
C28_ReturnsOnceLaunched ==
    ran.done /\ lastRunTime # NoTime =>
        /\ ran.err = ""
        /\ ran.v.kind \in {"parsed", "error"}

---------------------------------------------------------------------------
(* service/MultiProcessing.py: the worker processes (class Tool) take     *)
(* tasks from one JoinableQueue and put their answers on one Queue; the   *)
(* main process enqueues the tasks and one None per worker, joins the     *)
(* task queue and reads the results.                                      *)

\* num_tools, the number of worker processes
NumTools == 2

\* num_jobs, the number of tasks enqueued
NumJobs == 2

Tools == 1..NumTools

\* the i of range(num_jobs)
Jobs == 0..(NumJobs - 1)

\* Task(i, i)
Task(i) == [none |-> FALSE, a |-> i, b |-> i]

\* the poison pill None
NoneTask == [none |-> TRUE, a |-> 0, b |-> 0]

\* Task.__call__: '%s * %s = %s' % (self.a, self.b, self.a * self.b)
TaskCall(task) == [a |-> task.a, b |-> task.b, product |-> task.a * task.b]

\* one pill too few for the workers
PillsPutOneLess == NumTools - 1

\* for i in range(num_tools): tasks.put(None)
PillsPut == NumTools

\* Tool.run: where the worker goes with the item it took
afterGet(item) == IF item.none THEN "pill_task_done" ELSE "call"

\* a worker that drops its answer and takes the next item
afterTaskDoneNoPut(pc) == IF pc = "pill_task_done" THEN "exit" ELSE "get"

\* Tool.run: where the worker goes after task_done: out of the loop after
\* the pill, on to result_queue.put(answer) after a task
afterTaskDone(pc) == IF pc = "pill_task_done" THEN "exit" ELSE "put"

\* nothing done by the workers yet: who executed each job, and per worker
\* the items taken, the calls of task_done and the pills taken
NoHistory ==
    [executed |-> [j \in Jobs |-> <<>>],
     taken |-> [t \in Tools |-> 0],
     done |-> [t \in Tools |-> 0],
     pills |-> [t \in Tools |-> 0]]

\* the queues are created and every worker is started (each blocks in
\* task_queue.get()), the main process is about to enqueue the jobs
InitWorkers ==
    /\ tasks = <<>>
    /\ unfinished = 0
    /\ results = <<>>
    /\ mainPc = [at |-> "tasks", i |-> 0]
    /\ num_jobs = NumJobs
    /\ toolPc = [t \in Tools |-> "get"]
    /\ next_task = [t \in Tools |-> NoneTask]
    /\ history = NoHistory
    /\ LshwIdle
    /\ ParserIdle
    /\ arguments = <<>>
    /\ ToolIdle

workersLeave == <<lshwVars, parserVars, arguments, toolVars>>

\* main: tasks.put(Task(i, i)), the last one leaving the loop
MainPutTask ==
    /\ mainPc.at = "tasks"
    /\ mainPc.i < NumJobs
    /\ tasks' = Append(tasks, Task(mainPc.i))
    /\ unfinished' = unfinished + 1
    /\ mainPc' = IF mainPc.i + 1 < NumJobs
                 THEN [mainPc EXCEPT !.i = @ + 1]
                 ELSE [at |-> "pills", i |-> 0]
    /\ UNCHANGED <<results, num_jobs, toolPc, next_task, history, workersLeave>>

\* main: tasks.put(None), the last one leaving the loop
MainPutPill ==
    /\ mainPc.at = "pills"
    /\ mainPc.i < PillsPut
    /\ tasks' = Append(tasks, NoneTask)
    /\ unfinished' = unfinished + 1
    /\ mainPc' = IF mainPc.i + 1 < PillsPut
                 THEN [mainPc EXCEPT !.i = @ + 1]
                 ELSE [at |-> "join", i |-> 0]
    /\ UNCHANGED <<results, num_jobs, toolPc, next_task, history, workersLeave>>

\* main: tasks.join() returns, every item put was marked done
MainJoin ==
    /\ mainPc.at = "join"
    /\ unfinished = 0
    /\ mainPc' = [at |-> IF num_jobs > 0 THEN "results" ELSE "end", i |-> 0]
    /\ UNCHANGED <<tasks, unfinished, results, num_jobs, toolPc, next_task,
                   history, workersLeave>>

\* main: result = results.get(); num_jobs -= 1
MainGetResult ==
    /\ mainPc.at = "results"
    /\ results # <<>>
    /\ results' = Tail(results)
    /\ num_jobs' = num_jobs - 1
    /\ mainPc' = IF num_jobs - 1 > 0 THEN mainPc ELSE [at |-> "end", i |-> 0]
    /\ UNCHANGED <<tasks, unfinished, toolPc, next_task, history, workersLeave>>

\* worker t: next_task = self.task_queue.get()
ToolGet(t) ==
    /\ toolPc[t] = "get"
    /\ tasks # <<>>
    /\ next_task' = [next_task EXCEPT ![t] = Head(tasks)]
    /\ tasks' = Tail(tasks)
    /\ toolPc' = [toolPc EXCEPT ![t] = afterGet(Head(tasks))]
    /\ history' = [history EXCEPT
                      !.taken[t] = @ + 1,
                      !.pills[t] = IF Head(tasks).none THEN @ + 1 ELSE @]
    /\ UNCHANGED <<unfinished, results, mainPc, num_jobs, workersLeave>>

\* worker t: answer = next_task()
ToolCall(t) ==
    /\ toolPc[t] = "call"
    /\ toolPc' = [toolPc EXCEPT ![t] = "task_done"]
    /\ history' = [history EXCEPT !.executed[next_task[t].a] = Append(@, t)]
    /\ UNCHANGED <<tasks, unfinished, results, mainPc, num_jobs, next_task,
                   workersLeave>>

\* worker t: self.task_queue.task_done(), after a task or after the pill
ToolTaskDone(t) ==
    /\ toolPc[t] \in {"task_done", "pill_task_done"}
    /\ unfinished > 0
    /\ unfinished' = unfinished - 1
    /\ toolPc' = [toolPc EXCEPT ![t] = afterTaskDone(@)]
    /\ history' = [history EXCEPT !.done[t] = @ + 1]
    /\ UNCHANGED <<tasks, results, mainPc, num_jobs, next_task, workersLeave>>

\* worker t: self.result_queue.put(answer)
ToolPut(t) ==
    /\ toolPc[t] = "put"
    /\ results' = Append(results, TaskCall(next_task[t]))
    /\ toolPc' = [toolPc EXCEPT ![t] = "get"]
    /\ UNCHANGED <<tasks, unfinished, mainPc, num_jobs, next_task, history,
                   workersLeave>>

\* the steps of the main process
MainStep == MainPutTask \/ MainPutPill \/ MainJoin \/ MainGetResult

\* the steps of worker t
ToolStep(t) == ToolGet(t) \/ ToolCall(t) \/ ToolTaskDone(t) \/ ToolPut(t)

NextWorkers == MainStep \/ \E t \in Tools : ToolStep(t)

SpecWorkers == InitWorkers /\ [][NextWorkers]_vars

\* the operating system lets every process that can take a step take one
FairWorkers ==
    /\ WF_vars(MainStep)
    /\ \A t \in Tools : WF_vars(ToolStep(t))

SpecWorkersFair == SpecWorkers /\ FairWorkers


\* every worker has left its loop
AllExited == \A t \in Tools : toolPc[t] = "exit"

\* tasks.join() has returned in the main process
JoinReturned == mainPc.at \in {"results", "end"}

\* what holds of the workers at every moment: a worker takes at most one
\* pill and nothing after it, no task is executed twice, task_done is
\* called at most once per item taken and never on a queue without
\* unfinished items, and the queue counts the items put and not yet done
WorkersSafe ==
    /\ \A t \in Tools :
          /\ history.pills[t] <= 1
          /\ history.pills[t] = 1 =>
                 /\ toolPc[t] \in {"pill_task_done", "exit"}
                 /\ next_task[t] = NoneTask
          /\ history.done[t] <= history.taken[t]
          /\ history.taken[t] - history.done[t] =
                 IF toolPc[t] \in {"call", "task_done", "pill_task_done"}
                 THEN 1 ELSE 0
          /\ toolPc[t] \in {"task_done", "pill_task_done"} => unfinished > 0
    /\ \A j \in Jobs : Len(history.executed[j]) <= 1
    /\ \A t \in Tools : toolPc[t] = "exit" =>
          /\ history.pills[t] = 1
          /\ history.done[t] = history.taken[t]

\* what holds once the protocol has run to its end: every worker has
\* exited on its one pill, every task was executed by exactly one worker,
\* every item was marked done and tasks.join() has returned
WorkersFinished ==
    /\ AllExited
    /\ JoinReturned
    /\ tasks = <<>>
    /\ unfinished = 0
    /\ \A t \in Tools : history.pills[t] = 1 /\ history.done[t] = history.taken[t]
    /\ \A j \in Jobs : Len(history.executed[j]) = 1

\* C29: with NumTools workers on one task queue, NumJobs tasks and then
\* one None per worker enqueued, under fair scheduling every worker
\* eventually exits, each worker consumes exactly one pill and processes no
\* task after it, every task is executed by exactly one worker, and
\* task_done is called exactly once per item taken, so that tasks.join()
\* eventually returns.
C29_WorkerProtocol == []WorkersSafe /\ <>[]WorkersFinished

\* the protocol ran to its end with the tasks shared out: two workers
\* executed a task each, and the main process has read every result
C29_Witness ==
    /\ WorkersFinished
    /\ mainPc.at = "end"
    /\ \E j, k \in Jobs :
          /\ history.executed[j] # <<>>
          /\ history.executed[k] # <<>>
          /\ history.executed[j] # history.executed[k]

\* C30: at the moment tasks.join() returns in the main process the result
\* queue already holds exactly one result for each of the NumJobs enqueued
\* tasks, in every interleaving of the workers.
C30_ResultsAtJoin ==
    [][mainPc.at = "join" /\ mainPc'.at # "join" =>
          /\ Len(results') = NumJobs
          /\ \A j \in Jobs :
                \E i \in DOMAIN results' : results'[i] = TaskCall(Task(j))]_vars

\* tasks.join() has just returned and no result was read yet: both results
\* are on the queue, the one of the later task first
C30_Witness ==
    /\ mainPc.at = "results"
    /\ num_jobs = NumJobs
    /\ Len(results) = NumJobs
    /\ results[1].a > results[2].a

=============================================================================
